---------------------------- MODULE Spec2Model ----------------------------
(***************************************************************************)
(* The entity simulation of the penguin game: Actor kinematics and         *)
(* collision resolution, the block push response, the Player and Enemy     *)
(* state machines and the running branch of Game.run_game.                 *)
(*                                                                         *)
(* Units.  Positions are held in tenths of a pixel and velocities in       *)
(* tenths of a pixel per millisecond, so that pos += vel * dt is exact for *)
(* the speeds 0.5, 1 and 0.3 and every integer dt.  A pygame Rect holds    *)
(* whole pixels: rect.x = pos.x truncates, which RectX / RectY do.         *)
(***************************************************************************)
EXTENDS Integers, Sequences, FiniteSets, TLC

VARIABLES
    ents,             \* id -> the sprite object (Player, Enemy or Block)
    walls,            \* game.walls: the positions of the Wall sprites, in group order
    all_sprites,      \* game.all_sprites, in group order (the sprites with an update)
    blocks,           \* game.blocks, in group order
    moving_blocks,    \* game.moving_blocks, in group order
    enemies,          \* game.enemies, in group order
    stunned_enemies,  \* game.stunned_enemies, in group order
    player,           \* game.player (an id)
    file,             \* the lines of the level file setup_play loads
    level,            \* Level.element_grid: the element grid made of the file
    score,            \* game.score
    lives,            \* game.lives
    state,            \* game.state
    game_state,       \* game.game_state
    timer,            \* game.timer
    display_timer,    \* game.display_timer
    kill_bonus,       \* game.kill_bonus
    dt,               \* game.dt of the current loop iteration
    pc,               \* position in the loop body of run_game
    queue,            \* the sprites all_sprites.update() has still to call
    err,              \* the exception that ended the process, "" while it runs
    last              \* observation of the latest Actor.update call

\* What setup_play makes: the sprites, their groups and the level's counters.
setup == <<ents, walls, all_sprites, blocks, moving_blocks, enemies,
           stunned_enemies, player, timer, kill_bonus>>

vars == <<setup, file, level, score, lives, state, game_state, display_timer, dt,
          pc, queue, err, last>>

---------------------------------------------------------------------------
(* settings.py *)

TILE_SIZE == 64
MAX_GRID_WIDTH == 20
MAX_GRID_HEIGHT == 20
INFO_HEIGHT == 32
START_LIVES == 2
TIME_LIMIT == 120
ENEMY_CLEARANCE_BONUS == 1000
DEATH_TIME == 60
ENEMY_KILL_POINTS == 200
EGG_BREAK_POINTS == 400

\* A decimal number i.f as a count of tenths.
Tenths(i, f) == i * 10 + f

PLAYER_SPEED == Tenths(0, 5)
BLOCK_SPEED == Tenths(1, 0)
ENEMY_SPEED == Tenths(0, 3)

\* STUNNED_TIME and RESPAWN_IMMUNITY are imported by entities/actors.py from
\* a revision of settings.py that is not part of the sources: the model
\* runs with these numbers of updates.
STUNNED_TIME == 3
RESPAWN_IMMUNITY == 2

\* DIAMOND_LINEUP_BONUS is imported by entities/actors.py in the same way:
\* the model runs with this bonus.
DIAMOND_LINEUP_BONUS == 500

\* The values Clock.tick(FPS) returns (milliseconds) in the modelled runs.
Dts == {16}

\* Game.target_no_kills
TARGET_NO_KILLS == 5

\* is_actor_neighbour_in_direction's default tolerance (pixels).
TOLERANCE == 12

\* The model starts no loop iteration once the enemies have died more than
\* this many times in all (deaths and score are unbounded counters).
MaxDeaths == 1

\* The model starts no loop iteration once a sprite is more than this many
\* tiles outside the wall ring (nothing stops a sprite that has left it).
MaxStray == 0

\* The level files of the modelled loads have up to MaxLines lines of up to
\* MaxColumns characters (and the one-column and one-row grids of free
\* tiles about the size limit).
MaxLines == 2
MaxColumns == 2

\* The model of the levels with diamonds starts no loop iteration once the
\* score has reached this many line-up bonuses.
MaxBonuses == 3

\* Up to this many TIMER events are in the event queue when Game.events
\* reads it (the timer posts one a second, events() runs once an iteration).
MaxEvents == 2

\* The model starts no loop iteration once the level timer or the display
\* timer is more than this far below zero, or the lives are (nothing ends
\* the decrements of a timer that has passed zero).
MaxOverrun == 0

\* The model starts no loop iteration once the player's death countdown has
\* been decremented more than this many times.
MaxDying == 1

---------------------------------------------------------------------------
(* Optional values and vectors *)

None == <<>>
Some(n) == <<n>>
Val(o) == o[1]

\* `name = value` followed by the statements Op that read name: the value
\* is computed once and handed to Op.
With(value, Op(_)) == Op(value)

Vec(x, y) == <<x, y>>
Zero == Vec(0, 0)
Add(u, v) == Vec(u[1] + v[1], u[2] + v[2])
Sub(u, v) == Vec(u[1] - v[1], u[2] - v[2])
Scale(u, k) == Vec(u[1] * k, u[2] * k)
LenSq(u) == u[1] * u[1] + u[2] * u[2]
Abs(n) == IF n < 0 THEN -n ELSE n

LEFT == Vec(-1, 0)
RIGHT == Vec(1, 0)
UP == Vec(0, -1)
DOWN == Vec(0, 1)
Directions == {LEFT, RIGHT, UP, DOWN}

\* int(v) for a count of tenths: the whole pixels, truncated towards zero.
Trunc(v) == IF v >= 0 THEN v \div 10 ELSE -((-v) \div 10)

\* rect.x and rect.y (whole pixels) of a sprite at position pos.
RectX(pos) == Trunc(pos[1])
RectY(pos) == Trunc(pos[2])

\* The position (in tenths) of a sprite made at tile (x, y).
TilePos(x, y) == Vec(Tenths(x * TILE_SIZE, 0), Tenths(y * TILE_SIZE + INFO_HEIGHT, 0))

\* Rect.colliderect for two TILE_SIZE squares at positions p and q.
CollideRect(p, q) ==
    /\ RectX(p) < RectX(q) + TILE_SIZE
    /\ RectX(q) < RectX(p) + TILE_SIZE
    /\ RectY(p) < RectY(q) + TILE_SIZE
    /\ RectY(q) < RectY(p) + TILE_SIZE

\* pg.sprite.collide_rect_ratio(ratio): both rects are inflated by
\* int(TILE_SIZE * ratio - TILE_SIZE), which is `grow` (6 for 1.1, 12 for 1.2).
CollideRectRatio(p, q, grow) ==
    /\ RectX(p) < RectX(q) + TILE_SIZE + grow
    /\ RectX(q) < RectX(p) + TILE_SIZE + grow
    /\ RectY(p) < RectY(q) + TILE_SIZE + grow
    /\ RectY(q) < RectY(p) + TILE_SIZE + grow

\* pg.sprite.collide_circle_ratio(ratio): the rects' centres are no further
\* apart than the sum of the radii, each ratio * half the rect's diagonal;
\* num / den is ratio squared.
CollideCircleRatio(p, q, num, den) ==
    LET dx == RectX(p) - RectX(q)
        dy == RectY(p) - RectY(q)
    IN  (dx * dx + dy * dy) * den <= 2 * TILE_SIZE * TILE_SIZE * num

---------------------------------------------------------------------------
(* Construction: Actor.__init__ and the subclasses' __init__ *)

\* Block at tile (x, y).
NewBlock(x, y) ==
    [kind |-> "Block", pos |-> TilePos(x, y), vel |-> Zero, facing |-> DOWN,
     killed |-> FALSE,
     stopped_by |-> <<"walls", "blocks">>, killed_by |-> <<>>]

\* Diamond at tile (x, y): a Block with its own update and
\* blocked_push_response.  No class of the sources assigns the attribute
\* stopped that Diamond.update reads ("unset"); "set" is a Diamond of a
\* revision of entities.py that keeps it.
NewDiamond(x, y, stopped) ==
    [kind |-> "Diamond", pos |-> TilePos(x, y), vel |-> Zero, facing |-> DOWN,
     killed |-> FALSE,
     stopped_by |-> <<"walls", "blocks">>, killed_by |-> <<>>,
     stopped |-> stopped]

\* EggBlock at tile (x, y): a Block with a point value and its own
\* blocked_push_response.
NewEggBlock(x, y) ==
    [kind |-> "EggBlock", pos |-> TilePos(x, y), vel |-> Zero, facing |-> DOWN,
     killed |-> FALSE,
     stopped_by |-> <<"walls", "blocks">>, killed_by |-> <<>>,
     point_value |-> EGG_BREAK_POINTS]

\* Player at tile (x, y).  entities/actors.py never assigns frozen before
\* Player.update reads it ("unset"); the Player of actors.py, which level.py
\* imports, starts with frozen = False.
NewPlayer(x, y, frozen) ==
    [kind |-> "Player", pos |-> TilePos(x, y), vel |-> Zero, facing |-> DOWN,
     killed |-> FALSE,
     stopped_by |-> <<"walls", "blocks">>, killed_by |-> <<"enemies">>,
     frozen |-> frozen, death_timer |-> None]

\* Enemy at tile (x, y).
NewEnemy(x, y) ==
    [kind |-> "Enemy", pos |-> TilePos(x, y), vel |-> Scale(DOWN, ENEMY_SPEED),
     facing |-> DOWN, killed |-> FALSE,
     stopped_by |-> <<"walls", "blocks">>, killed_by |-> <<"moving_blocks">>,
     initial_stopped_by |-> <<"walls">>,
     reset_stopped_by |-> <<"walls", "blocks">>,
     initial_killed_by |-> <<"moving_blocks">>,
     point_value |-> ENEMY_KILL_POINTS, hunt |-> FALSE, deaths |-> 0,
     starting_x |-> x, starting_y |-> y,
     respawn_timer |-> None, stunned_timer |-> None]

---------------------------------------------------------------------------
(* level.py and Game.setup_play *)

\* The element grids of the level files of the modelled runs: rows of tokens.
Levels ==
    { << <<"1", "0", ".">> >>,
      << <<"1", "0", "0">> >>,
      << <<"1", "2">> >> }

\* The level of the end-to-end push: a block east of the player, one free
\* tile east of the block.
PushLevels == { << <<"1", "0", ".">> >> }

\* The level of the death sequences: the player with an enemy east of it.
LifeLevels == { << <<"1", "2">> >> }

\* A level whose enemy is made, and so updated, before the player.
EnemyFirstLevels == { << <<"2", "1">> >> }

\* A level with an enemy in the way of the pushed block.
SquashLevels == { << <<"1", "0", "2">> >> }

\* The characters of the level files of the modelled loads: tokens of
\* ELEMENTS, a character that is none ("x") and white space.
FileChars == {".", "1", "x", " "}

\* The lines of up to n characters.
LinesUpTo(n) == UNION {[1..k -> FileChars] : k \in 0..n}

\* A grid of rows lines of cols free tiles.
Blank(rows, cols) == [r \in 1..rows |-> [c \in 1..cols |-> "."]]

\* The level files of the modelled loads, as the lines `for line in f`
\* yields, each without its line terminator.
LevelFiles ==
    UNION {[1..k -> LinesUpTo(MaxColumns)] : k \in 0..MaxLines}
    \cup {Blank(rows, 1) : rows \in {MAX_GRID_HEIGHT - 2, MAX_GRID_HEIGHT - 1}}
    \cup {Blank(1, cols) : cols \in {MAX_GRID_WIDTH - 2, MAX_GRID_WIDTH - 1}}

\* str.strip(): the line without its leading and trailing white space.
Whitespace == {" ", "\n"}

RECURSIVE LStrip(_)
LStrip(line) ==
    IF line # <<>> /\ Head(line) \in Whitespace THEN LStrip(Tail(line)) ELSE line

RECURSIVE RStrip(_)
RStrip(line) ==
    IF line # <<>> /\ line[Len(line)] \in Whitespace
    THEN RStrip(SubSeq(line, 1, Len(line) - 1))
    ELSE line

Strip(line) == RStrip(LStrip(line))

\* The keys of ELEMENTS.
ElementKeys == {".", "0", "1", "2", "\n"}

\* ParseLines without its assert statement (as python -O compiles it).
RECURSIVE ParseLinesNoAssert(_, _, _, _)
ParseLinesNoAssert(f, i, n_cols, element_grid) ==
    IF i > Len(f) THEN [error |-> "", element_grid |-> element_grid, n_cols |-> n_cols]
    ELSE With(Strip(f[i]), LAMBDA stripped_line :
             IF \E c \in 1..Len(stripped_line) : stripped_line[c] \notin ElementKeys
             THEN [error |-> "RuntimeError", element_grid |-> element_grid,
                   n_cols |-> n_cols]
             ELSE ParseLinesNoAssert(f, i + 1, IF i = 1 THEN Len(stripped_line) ELSE n_cols,
                                     Append(element_grid, stripped_line)))

\* The loop of parse_input_file from line i of file f on: n_cols is the
\* length of the first stripped line; error is the exception that ended it.
RECURSIVE ParseLines(_, _, _, _)
ParseLines(f, i, n_cols, element_grid) ==
    IF i > Len(f) THEN [error |-> "", element_grid |-> element_grid, n_cols |-> n_cols]
    ELSE With(Strip(f[i]), LAMBDA stripped_line :
             IF i > 1 /\ Len(stripped_line) # n_cols
             THEN [error |-> "AssertionError", element_grid |-> element_grid,
                   n_cols |-> n_cols]
             ELSE IF \E c \in 1..Len(stripped_line) : stripped_line[c] \notin ElementKeys
             THEN [error |-> "RuntimeError", element_grid |-> element_grid,
                   n_cols |-> n_cols]
             ELSE ParseLines(f, i + 1, IF i = 1 THEN Len(stripped_line) ELSE n_cols,
                             Append(element_grid, stripped_line)))

\* Level.parse_input_file() on a new Level: the exception it ends in ("" for
\* none) and the Level's attributes after it.  n_cols is not bound when the
\* file has no line.
ParseInputFile(f) ==
    With(ParseLines(f, 1, 0, <<>>), LAMBDA r :
        LET failed(error) == [error |-> error, element_grid |-> None,
                              element_height |-> None, element_width |-> None]
        IN  IF r.error # "" THEN failed(r.error)
            ELSE IF Len(f) > MAX_GRID_HEIGHT - 2 THEN failed("AssertionError")
            ELSE IF Len(f) = 0 THEN failed("UnboundLocalError")
            ELSE IF r.n_cols > MAX_GRID_WIDTH - 2 THEN failed("AssertionError")
            ELSE [error |-> "", element_grid |-> r.element_grid,
                  element_height |-> Some(Len(f)), element_width |-> Some(r.n_cols)])

\* ELEMENTS: the sprite a token makes at tile (x, y); <<>> for no sprite.
Element(char, x, y, frozen) ==
    CASE char = "0" -> <<NewBlock(x, y)>>
      [] char = "1" -> <<NewPlayer(x, y, frozen)>>
      [] char = "2" -> <<NewEnemy(x, y)>>
      [] OTHER -> <<>>

\* Level._load_sprites: the sprites in creation order, row by row; the token
\* at row r, column c (from 1) is made at tile (c, r), inside the wall ring.
RECURSIVE LoadFrom(_, _, _, _)
LoadFrom(grid, r, c, frozen) ==
    IF r > Len(grid) THEN <<>>
    ELSE IF c > Len(grid[r]) THEN LoadFrom(grid, r + 1, 1, frozen)
    ELSE Element(grid[r][c], c, r, frozen) \o LoadFrom(grid, r, c + 1, frozen)

LoadSprites(grid, frozen) == LoadFrom(grid, 1, 1, frozen)

\* Game.make_boundary_wall(height, width): the Wall positions in creation order.
RECURSIVE WallRows(_, _, _)
WallRows(x, height, width) ==
    IF x >= width THEN <<>>
    ELSE <<TilePos(x, 0), TilePos(x, height - 1)>> \o WallRows(x + 1, height, width)

RECURSIVE WallColumns(_, _, _)
WallColumns(y, height, width) ==
    IF y >= height - 1 THEN <<>>
    ELSE <<TilePos(0, y), TilePos(width - 1, y)>> \o WallColumns(y + 1, height, width)

\* MakeBoundaryWall whose columns start at the top row and end at the
\* bottom row.
MakeBoundaryWallFullColumns(height, width) ==
    WallRows(0, height, width) \o WallColumns(0, height + 1, width)

MakeBoundaryWall(height, width) ==
    WallRows(0, height, width) \o WallColumns(1, height, width)

\* The ids (creation order) of the sprites of a kind.
IdsOfKind(sprites, kind) ==
    SelectSeq([i \in 1..Len(sprites) |-> i], LAMBDA i: sprites[i].kind = kind)

\* The last Player made is game.player.
LastOf(s) == s[Len(s)]

\* game.player after _load_sprites: 0 is the None of Game.__init__, which
\* stays when the grid has no Player.
LastPlayer(sprites) ==
    IF IdsOfKind(sprites, "Player") = <<>> THEN 0
    ELSE LastOf(IdsOfKind(sprites, "Player"))

\* Game.setup_play: what it makes of the level grid.
SetupPlay(grid, frozen) ==
    With(LoadSprites(grid, frozen), LAMBDA sprites :
        [ents |-> sprites,
         walls |-> MakeBoundaryWall(Len(grid) + 2, Len(grid[1]) + 2),
         all_sprites |-> [i \in 1..Len(sprites) |-> i],
         blocks |-> IdsOfKind(sprites, "Block"),
         moving_blocks |-> <<>>,
         enemies |-> IdsOfKind(sprites, "Enemy"),
         stunned_enemies |-> <<>>,
         player |-> LastPlayer(sprites),
         timer |-> TIME_LIMIT,
         kill_bonus |-> None])

\* SetupScore that starts every level from zero.
SetupScoreFromZero(reset, current) == 0

\* game.score after setup_play(reset): a new game starts from zero, a reset
\* of the level keeps the score.
SetupScore(reset, current) == IF reset THEN current ELSE 0

\* The game when the loop first runs the level setup_play has made (s) with
\* n_lives lives left: the READY display is over.
Started(s, n_lives) ==
    /\ file = level
    /\ ents = s.ents
    /\ walls = s.walls
    /\ all_sprites = s.all_sprites
    /\ blocks = s.blocks
    /\ moving_blocks = s.moving_blocks
    /\ enemies = s.enemies
    /\ stunned_enemies = s.stunned_enemies
    /\ player = s.player
    /\ timer = s.timer
    /\ kill_bonus = s.kill_bonus
    /\ score = 0
    /\ lives = n_lives
    /\ state = "PLAY"
    /\ game_state = "RUNNING"
    /\ display_timer = None
    /\ dt \in Dts
    /\ pc = "loop"
    /\ queue = <<>>
    /\ err = ""
    /\ last = [id |-> 0]

\* The game at the top of the loop after a setup_play that has made s, with
\* n_lives lives: the in-game state is READY and the display has not begun.
Entered(s, n_lives) ==
    /\ file = level
    /\ ents = s.ents
    /\ walls = s.walls
    /\ all_sprites = s.all_sprites
    /\ blocks = s.blocks
    /\ moving_blocks = s.moving_blocks
    /\ enemies = s.enemies
    /\ stunned_enemies = s.stunned_enemies
    /\ player = s.player
    /\ timer = s.timer
    /\ kill_bonus = s.kill_bonus
    /\ score = SetupScore(FALSE, None)
    /\ lives = n_lives
    /\ state = "PLAY"
    /\ game_state = "READY"
    /\ display_timer = None
    /\ pc = "loop"
    /\ queue = <<>>
    /\ err = ""
    /\ last = [id |-> 0]

\* The first setup_play of a game at its call of Level.load_level: the
\* groups are new, the score and the lives are set, no sprite is made and
\* the attributes of the new Level are unset.  timer and dt are still the
\* None of Game.__init__.
InitLoad ==
    /\ file \in LevelFiles
    /\ level = None
    /\ ents = <<>>
    /\ walls = <<>>
    /\ all_sprites = <<>>
    /\ blocks = <<>>
    /\ moving_blocks = <<>>
    /\ enemies = <<>>
    /\ stunned_enemies = <<>>
    /\ player = 0
    /\ timer = None
    /\ kill_bonus = None
    /\ score = SetupScore(FALSE, None)
    /\ lives = START_LIVES
    /\ state = "PLAY"
    /\ game_state = "READY"
    /\ display_timer = None
    /\ dt = None
    /\ pc = "load"
    /\ queue = <<>>
    /\ err = ""
    /\ last = [id |-> 0]

\* The state when the loop first runs a level with n_lives lives left.
LoadedWith(levels, n_lives) ==
    /\ level \in levels
    /\ \E frozen \in {"unset", "False"} :
           \E s \in {SetupPlay(level, frozen)} : Started(s, n_lives)

\* The first run of a level after Game.__init__.
Loaded(levels) == LoadedWith(levels, START_LIVES)

Init == Loaded(Levels)

InitPush == Loaded(PushLevels)

InitSquash == Loaded(SquashLevels)

InitLives == Loaded(LifeLevels)

InitEnemyFirst == Loaded(EnemyFirstLevels)

\* A game of the level of the end-to-end push from run_game's entry of the
\* loop (dt is still the None of Game.__init__).
InitTimer ==
    /\ level \in PushLevels
    /\ dt = None
    /\ \E s \in {SetupPlay(level, "False")} : Entered(s, START_LIVES)

\* A game of the level of the death sequences that has lost all lives but
\* one without scoring: the level has just been set up again.
InitLastLife ==
    /\ level \in LifeLevels
    /\ dt \in Dts
    /\ \E s \in {SetupPlay(level, "False")} : Entered(s, START_LIVES - 1)

\* Diamond(game, x, y) for each tile of tiles, in order, after the sprites of
\* the level: a Diamond joins all_sprites, game.diamonds and game.blocks.
RECURSIVE WithDiamonds(_, _, _)
WithDiamonds(s, tiles, stopped) ==
    IF tiles = <<>> THEN s
    ELSE WithDiamonds([s EXCEPT !.ents = Append(@, NewDiamond(Head(tiles)[1],
                                                             Head(tiles)[2], stopped)),
                               !.all_sprites = Append(@, Len(s.ents) + 1),
                               !.blocks = Append(@, Len(s.ents) + 1)],
                      Tail(tiles), stopped)

\* The level of the diamonds (level.py has no token for a Diamond): two or
\* three of them on the free tiles between the player and the enemy.
DiamondLevels == { << <<"1", ".", ".", ".", ".", "2">> >> }
DiamondColumns == 2..5
DiamondPlacings ==
    {<<Vec(a, 1), Vec(b, 1)>> : a, b \in DiamondColumns} \cup
    {<<Vec(a, 1), Vec(b, 1), Vec(c, 1)>> : a, b, c \in DiamondColumns}

\* The tiles of a placing are in increasing order of column.
Increasing(tiles) == \A i \in 1..(Len(tiles) - 1) : tiles[i][1] < tiles[i + 1][1]

InitDiamonds ==
    /\ level \in DiamondLevels
    /\ \E frozen \in {"unset", "False"}, stopped \in {"unset", "set"} :
           \E tiles \in {placing \in DiamondPlacings : Increasing(placing)} :
               \E s \in {WithDiamonds(SetupPlay(level, frozen), tiles, stopped)} :
                   Started(s, START_LIVES)

\* A sprite of Block or of one of its subclasses made by its constructor
\* after the sprites of the level: it joins all_sprites and game.blocks.
WithBlock(s, sprite) ==
    [s EXCEPT !.ents = Append(@, sprite),
              !.all_sprites = Append(@, Len(s.ents) + 1),
              !.blocks = Append(@, Len(s.ents) + 1)]

\* The levels of the blocked pushes: the tile east of the player is free
\* for a sprite of one of the Block classes, which has the wall or a block
\* as its neighbour to the east.
BreakLevels == { << <<"1", ".">> >>, << <<"1", ".", "0">> >> }
Breakables ==
    {NewBlock(2, 1), NewEggBlock(2, 1), NewDiamond(2, 1, "unset"),
     NewDiamond(2, 1, "set")}

InitBreak ==
    /\ level \in BreakLevels
    /\ \E frozen \in {"unset", "False"}, sprite \in Breakables :
           \E s \in {WithBlock(SetupPlay(level, frozen), sprite)} :
               Started(s, START_LIVES)

\* The level of the stuns: the player in a corner of three rows of three
\* tiles, with walls to its west and north, and an enemy on the middle tile,
\* which is beside no wall; with or without a Diamond in the far corner.
StunLevels == { << <<"1", ".", ".">>, <<".", "2", ".">>, <<".", ".", ".">> >> }
StunDiamonds == {<<>>, <<Vec(3, 3)>>}

InitStun ==
    /\ level \in StunLevels
    /\ \E frozen \in {"unset", "False"}, tiles \in StunDiamonds :
           \E s \in {WithDiamonds(SetupPlay(level, frozen), tiles, "set")} :
               Started(s, START_LIVES)

---------------------------------------------------------------------------
(* The world an update works on: the game's fields, plus the return value  *)
(* of the latest call (ret) and the record of what the running update did: *)
(* its collide_and_stop calls (log), the position after integration and    *)
(* snap (contact) and at the end of Actor.update (final), the stopped_by   *)
(* list Actor.update used (stoppers), the respond_to_push calls (pushes),  *)
(* and for an Enemy its facing on entry (init_facing), whether it was      *)
(* stunned (stunned) and whether it chose a new direction (turned), and    *)
(* the enemies whose stun() took effect (stuns).                           *)

World ==
    [ents |-> ents, all_sprites |-> all_sprites, blocks |-> blocks,
     moving_blocks |-> moving_blocks, enemies |-> enemies,
     stunned_enemies |-> stunned_enemies, score |-> score, lives |-> lives,
     ret |-> FALSE, log |-> <<>>, contact |-> Zero, final |-> Zero,
     stoppers |-> <<>>, pushes |-> <<>>, init_facing |-> Zero,
     stunned |-> FALSE, turned |-> FALSE, stuns |-> <<>>]

\* Group.remove and Group.add (a sprite is in a group at most once; a new
\* member goes last).
Remove(group, id) == SelectSeq(group, LAMBDA s: s # id)
Member(group, id) == \E i \in 1..Len(group) : group[i] = id
AddTo(group, id) == IF Member(group, id) THEN group ELSE Append(group, id)

\* The members of a group, in group order: their id (0 for a Wall), position
\* and velocity.  player_group is the one-sprite group Enemy.stun makes.
GroupSprites(w, g) ==
    LET ids == CASE g = "blocks" -> w.blocks
                 [] g = "moving_blocks" -> w.moving_blocks
                 [] g = "enemies" -> w.enemies
                 [] g = "player_group" -> <<player>>
                 [] OTHER -> <<>>
    IN  IF g = "walls"
        THEN [i \in 1..Len(walls) |-> [id |-> 0, pos |-> walls[i], vel |-> Zero]]
        ELSE [i \in 1..Len(ids) |-> [id |-> ids[i], pos |-> w.ents[ids[i]].pos,
                                     vel |-> w.ents[ids[i]].vel]]

\* pg.sprite.spritecollide(self, group, False): the hits, in group order.
SpriteCollide(w, pos, g) ==
    SelectSeq(GroupSprites(w, g), LAMBDA q: CollideRect(pos, q.pos))

---------------------------------------------------------------------------
(* entities/entities.py: Actor *)

\* Actor.set_position(x, y)
SetPosition(a, x, y) == [a EXCEPT !.pos = TilePos(x, y)]

\* CollideAndStop that puts the actor against the hit and leaves its
\* velocity.
CollideAndStopKeepsMoving(w, id, g, axis) ==
    With(SpriteCollide(w, w.ents[id].pos, g), LAMBDA hits :
    LET a == w.ents[id]
        hit == hits[1].pos
        x == IF a.vel[1] > 0 THEN Tenths(RectX(hit) - TILE_SIZE, 0)
             ELSE IF a.vel[1] < 0 THEN Tenths(RectX(hit) + TILE_SIZE, 0)
             ELSE a.pos[1]
        y == IF a.vel[2] > 0 THEN Tenths(RectY(hit) - TILE_SIZE, 0)
             ELSE IF a.vel[2] < 0 THEN Tenths(RectY(hit) + TILE_SIZE, 0)
             ELSE a.pos[2]
        logged == [w EXCEPT !.log = Append(@, [group |-> g, axis |-> axis,
                                              hits |-> hits])]
    IN  IF hits = <<>> THEN [logged EXCEPT !.ret = FALSE]
        ELSE IF axis = "X"
        THEN [logged EXCEPT !.ret = TRUE, !.ents[id].pos = Vec(x, a.pos[2])]
        ELSE [logged EXCEPT !.ret = TRUE, !.ents[id].pos = Vec(a.pos[1], y)])

\* Actor.collide_and_stop(check_group, direction); ret is its return value.
CollideAndStop(w, id, g, axis) ==
    With(SpriteCollide(w, w.ents[id].pos, g), LAMBDA hits :
    LET a == w.ents[id]
        hit == hits[1].pos
        logged == [w EXCEPT !.log = Append(@, [group |-> g, axis |-> axis,
                                              hits |-> hits])]
        \* X axis: +ve = right, -ve = left
        x == IF a.vel[1] > 0 THEN Tenths(RectX(hit) - TILE_SIZE, 0)
             ELSE IF a.vel[1] < 0 THEN Tenths(RectX(hit) + TILE_SIZE, 0)
             ELSE a.pos[1]
        \* Y axis: +ve = down, -ve = up
        y == IF a.vel[2] > 0 THEN Tenths(RectY(hit) - TILE_SIZE, 0)
             ELSE IF a.vel[2] < 0 THEN Tenths(RectY(hit) + TILE_SIZE, 0)
             ELSE a.pos[2]
    IN  IF hits = <<>> THEN [logged EXCEPT !.ret = FALSE]
        ELSE IF axis = "X"
        THEN [logged EXCEPT !.ret = TRUE,
                            !.ents[id].pos = Vec(x, a.pos[2]),
                            !.ents[id].vel = Vec(0, a.vel[2])]
        ELSE [logged EXCEPT !.ret = TRUE,
                            !.ents[id].pos = Vec(a.pos[1], y),
                            !.ents[id].vel = Vec(a.vel[1], 0)])

\* The body of check_fatal_collisions' loop for the killers from i on;
\* ret is the running value of `killed`.
RECURSIVE FatalLoop(_, _, _, _)
FatalLoop(w, id, i, killed) ==
    IF i > Len(w.ents[id].killed_by) THEN [w EXCEPT !.ret = killed]
    ELSE With(CollideAndStop(w, id, w.ents[id].killed_by[i], "X"), LAMBDA wx :
         With(CollideAndStop(wx, id, w.ents[id].killed_by[i], "Y"), LAMBDA wy :
             IF wx.ret \/ wy.ret
             THEN FatalLoop([wy EXCEPT !.ents[id].vel = Zero], id, i + 1, TRUE)
             ELSE FatalLoop(wy, id, i + 1, killed)))

\* Actor.check_fatal_collisions()
CheckFatalCollisions(w, id) ==
    IF w.ents[id].killed_by = <<>> THEN [w EXCEPT !.ret = FALSE]
    ELSE FatalLoop(w, id, 1, FALSE)

\* The loop of Actor.update over stopped_by, from stopper i on.
RECURSIVE StopLoop(_, _, _)
StopLoop(w, id, i) ==
    IF i > Len(w.ents[id].stopped_by) THEN w
    ELSE With(CollideAndStop(w, id, w.ents[id].stopped_by[i], "X"), LAMBDA wx :
             StopLoop(CollideAndStop(wx, id, w.ents[id].stopped_by[i], "Y"),
                      id, i + 1))

\* SnapAxis that always goes down to the tile boundary.
SnapAxisDown(v) == v - (v % Tenths(TILE_SIZE, 0))

\* The grid snap of Actor.update on one axis: v is the coordinate less the
\* grid's origin on that axis.
SnapAxis(v) ==
    LET tile == Tenths(TILE_SIZE, 0)
        delta == v % tile
    IN  IF 2 * delta > tile THEN v - delta + tile ELSE v - delta

\* Actor.update(): integration and grid snap ...
Integrate(a) ==
    LET p == Add(a.pos, Scale(a.vel, dt))
        x == IF a.vel[1] = 0 THEN SnapAxis(p[1]) ELSE p[1]
        y == IF a.vel[2] = 0
             THEN SnapAxis(p[2] - Tenths(INFO_HEIGHT, 0)) + Tenths(INFO_HEIGHT, 0)
             ELSE p[2]
    IN  [a EXCEPT !.pos = Vec(x, y)]

\* ... then the fatal check ...
Checked(w, id) ==
    With(Integrate(w.ents[id]), LAMBDA moved :
    With(CheckFatalCollisions([w EXCEPT !.ents[id] = moved, !.log = <<>>,
                                        !.contact = moved.pos,
                                        !.stoppers = moved.stopped_by], id),
         LAMBDA w2 : [w2 EXCEPT !.ents[id].killed = w2.ret]))

\* ActorUpdate with the stop collisions applied whether killed or not.
ActorUpdateUnguarded(w, id) ==
    With(StopLoop(Checked(w, id), id, 1),
         LAMBDA w4 : [w4 EXCEPT !.final = w4.ents[id].pos])

\* ... and the stop collisions unless killed.
ActorUpdate(w, id) ==
    With(Checked(w, id), LAMBDA w3 :
    With(IF w3.ents[id].killed THEN w3 ELSE StopLoop(w3, id, 1),
         LAMBDA w4 : [w4 EXCEPT !.final = w4.ents[id].pos]))

---------------------------------------------------------------------------
(* entities/actors.py: the neighbour test and Block *)

\* IsActorNeighbourInDirection as a test of touching: actor2 is within a
\* tile and the tolerance of actor1, whatever the direction.
IsActorTouching(pos1, pos2, direction) ==
    LenSq(Sub(pos2, pos1)) <= Tenths(TILE_SIZE + TOLERANCE, 0)
                                  * Tenths(TILE_SIZE + TOLERANCE, 0)

\* is_actor_neighbour_in_direction(actor1, actor2, direction), on positions.
IsActorNeighbourInDirection(pos1, pos2, direction) ==
    LET actor_direction == Sub(pos2, pos1)
        difference == Sub(actor_direction, Scale(direction, Tenths(TILE_SIZE, 0)))
    IN  LenSq(difference) <= Tenths(TOLERANCE, 0) * Tenths(TOLERANCE, 0)

\* Sprite.kill(): the sprite leaves every group it is in.
Kill(w, id) ==
    [w EXCEPT !.all_sprites = Remove(@, id),
              !.blocks = Remove(@, id),
              !.moving_blocks = Remove(@, id),
              !.enemies = Remove(@, id),
              !.stunned_enemies = Remove(@, id)]

\* blocked_push_response() that kills a sprite of any class.
BlockedPushKillsAll(w, id) ==
    IF w.ents[id].kind = "EggBlock"
    THEN Kill([w EXCEPT !.score = @ + w.ents[id].point_value], id)
    ELSE Kill(w, id)

\* blocked_push_response(): a Block is killed, a Diamond does nothing, an
\* EggBlock adds its point value to the score and is killed.
BlockedPushResponse(w, id) ==
    CASE w.ents[id].kind = "Diamond" -> w
      [] w.ents[id].kind = "EggBlock" ->
             Kill([w EXCEPT !.score = @ + w.ents[id].point_value], id)
      [] OTHER -> Kill(w, id)

\* Blocking with the blocks alone, without the walls.
BlockingNoWalls(w, id, direction) ==
    LET pos == w.ents[id].pos
        hits == SelectSeq(GroupSprites(w, "blocks"),
                          LAMBDA q: CollideRectRatio(pos, q.pos, 6))
    IN  SelectSeq(hits, LAMBDA q: IsActorNeighbourInDirection(pos, q.pos, direction))

\* The `blocking` list of Block.respond_to_push: the blocks and walls the
\* enlarged rect (ratio 1.1) meets that are neighbours in the direction.
Blocking(w, id, direction) ==
    LET pos == w.ents[id].pos
        hits == SelectSeq(GroupSprites(w, "blocks"),
                          LAMBDA q: CollideRectRatio(pos, q.pos, 6))
                \o SelectSeq(GroupSprites(w, "walls"),
                             LAMBDA q: CollideRectRatio(pos, q.pos, 6))
    IN  SelectSeq(hits, LAMBDA q: IsActorNeighbourInDirection(pos, q.pos, direction))

\* RespondToPush that leaves the block it sets moving in game.blocks.
RespondToPushStaysInBlocks(w, id, direction) ==
    LET called == [w EXCEPT !.pushes = Append(@, [id |-> id, direction |-> direction,
                                                 blocks |-> w.blocks])]
    IN  IF Blocking(called, id, direction) = <<>>
        THEN [called EXCEPT !.ents[id].vel = Scale(direction, BLOCK_SPEED),
                            !.moving_blocks = AddTo(@, id)]
        ELSE BlockedPushResponse(called, id)

\* Block.respond_to_push(direction)
RespondToPush(w, id, direction) ==
    LET called == [w EXCEPT !.pushes = Append(@, [id |-> id, direction |-> direction,
                                                 blocks |-> w.blocks])]
    IN  IF Blocking(called, id, direction) = <<>>
        THEN [called EXCEPT !.ents[id].vel = Scale(direction, BLOCK_SPEED),
                            !.blocks = Remove(@, id),
                            !.moving_blocks = AddTo(@, id)]
        ELSE BlockedPushResponse(called, id)

\* BlockUpdate without the return of a stopped block to game.blocks.
BlockUpdateStaysMoving(w, id) == ActorUpdate(w, id)

\* Block.update()
BlockUpdate(w, id) ==
    LET w1 == IF w.ents[id].vel = Zero /\ Member(w.moving_blocks, id)
              THEN [w EXCEPT !.moving_blocks = Remove(@, id),
                             !.blocks = AddTo(@, id)]
              ELSE w
    IN  ActorUpdate(w1, id)

---------------------------------------------------------------------------
(* entities/actors.py: Enemy.stun and Diamond *)

\* Stun that leaves the enemy in game.enemies.
StunStaysInEnemies(w, id, wall_check) ==
    LET pos == w.ents[id].pos
        apply == IF wall_check
                 THEN \E i \in 1..Len(walls) : CollideRectRatio(pos, walls[i], 12)
                 ELSE TRUE
    IN  IF apply
        THEN [w EXCEPT !.ents[id].stunned_timer = Some(STUNNED_TIME),
                       !.stuns = Append(@, id),
                       !.stunned_enemies = AddTo(@, id),
                       !.ents[id].vel = Zero,
                       !.ents[id].killed_by = <<"player_group">>]
        ELSE w

\* Stun that takes effect wherever the enemy is.
StunAnywhere(w, id, wall_check) ==
    [w EXCEPT !.ents[id].stunned_timer = Some(STUNNED_TIME),
              !.stuns = Append(@, id),
              !.enemies = Remove(@, id),
              !.stunned_enemies = AddTo(@, id),
              !.ents[id].vel = Zero,
              !.ents[id].killed_by = <<"player_group">>]

\* Enemy.stun(wall_check)
Stun(w, id, wall_check) ==
    LET pos == w.ents[id].pos
        apply == IF wall_check
                 THEN \E i \in 1..Len(walls) : CollideRectRatio(pos, walls[i], 12)
                 ELSE TRUE
    IN  IF apply
        THEN [w EXCEPT !.ents[id].stunned_timer = Some(STUNNED_TIME),
                       !.stuns = Append(@, id),
                       !.enemies = Remove(@, id),
                       !.stunned_enemies = AddTo(@, id),
                       !.ents[id].vel = Zero,
                       !.ents[id].killed_by = <<"player_group">>]
        ELSE w

\* `for enemy in group: enemy.stun(wall_check)` over a snapshot of the group.
RECURSIVE StunAll(_, _, _)
StunAll(w, group, wall_check) ==
    IF group = <<>> THEN w
    ELSE StunAll(Stun(w, Head(group), wall_check), Tail(group), wall_check)

\* game.diamonds, in group order: the Diamond sprites (none is ever killed).
Diamonds(w) == IdsOfKind(w.ents, "Diamond")

\* The attribute stopped of an actor of the revision that keeps it: the
\* actor has come to rest.
Stopped(a) == a.vel = Zero

\* LineupCheck with `if hits` for `if any(hits)`.
LineupCheckAnyList(w, id) ==
    IF Diamonds(w) # <<>>
    THEN StunAll([w EXCEPT !.score = @ + DIAMOND_LINEUP_BONUS], w.enemies, FALSE)
    ELSE w

\* The check for aligned diamonds of Diamond.update: hits[i] says whether
\* the enlarged rect (ratio 1.2) of the i-th diamond meets every diamond.
LineupCheck(w, id) ==
    With(Diamonds(w), LAMBDA diamonds :
        LET n_diamonds == Len(diamonds)
            hits == [i \in 1..n_diamonds |->
                        Len(SelectSeq(diamonds, LAMBDA d :
                                CollideRectRatio(w.ents[diamonds[i]].pos,
                                                 w.ents[d].pos, 12)))
                            = n_diamonds]
        IN  IF \E i \in 1..n_diamonds : hits[i]
            THEN StunAll([w EXCEPT !.score = @ + DIAMOND_LINEUP_BONUS],
                         w.enemies, FALSE)
            ELSE w)

\* Diamond.update(), entered with stopped assigned.
DiamondUpdate(w, id) ==
    With(BlockUpdate(w, id), LAMBDA w1 :
        IF Stopped(w1.ents[id]) THEN LineupCheck(w1, id) ELSE w1)

\* ChooseNewDirection without the return of random_turn when the chase
\* direction is init_facing.
ChooseAlwaysChasing(a, player_pos, init_facing, randint, smart) ==
    LET turn_options == <<Scale(a.facing, -1)>>
                        \o (IF a.facing[1] = 0 THEN <<RIGHT, LEFT>> ELSE <<DOWN, UP>>)
        random_turn == turn_options[randint + 1]
        x == a.pos[1] - player_pos[1]
        y == a.pos[2] - player_pos[2]
        chase == IF Abs(x) > Abs(y)
                 THEN (IF x > 0 THEN LEFT ELSE RIGHT)
                 ELSE (IF y > 0 THEN UP ELSE DOWN)
    IN  IF smart \/ a.hunt THEN chase ELSE random_turn

\* Enemy.choose_new_direction(init_facing): randint is np.random.randint(3)
\* and smart is np.random.random() < ENEMY_IQ.
ChooseNewDirection(a, player_pos, init_facing, randint, smart) ==
    LET turn_options == <<Scale(a.facing, -1)>>
                        \o (IF a.facing[1] = 0 THEN <<RIGHT, LEFT>> ELSE <<DOWN, UP>>)
        random_turn == turn_options[randint + 1]
        x == a.pos[1] - player_pos[1]
        y == a.pos[2] - player_pos[2]
        chase == IF Abs(x) > Abs(y)
                 THEN (IF x > 0 THEN LEFT ELSE RIGHT)
                 ELSE (IF y > 0 THEN UP ELSE DOWN)
    IN  IF chase = init_facing THEN random_turn
        ELSE IF smart \/ a.hunt THEN chase
        ELSE random_turn

\* StunUpdate without the reset of killed_by when the countdown ends.
StunUpdateKeepsKillers(w, id) ==
    LET t == Val(w.ents[id].stunned_timer) - 1
    IN  IF t = 0
        THEN [w EXCEPT !.ents[id].stunned_timer = None,
                       !.stunned_enemies = Remove(@, id),
                       !.enemies = AddTo(@, id)]
        ELSE [w EXCEPT !.ents[id].stunned_timer = Some(t)]

\* Enemy.stun_update()
StunUpdate(w, id) ==
    LET t == Val(w.ents[id].stunned_timer) - 1
    IN  IF t = 0
        THEN [w EXCEPT !.ents[id].stunned_timer = None,
                       !.stunned_enemies = Remove(@, id),
                       !.enemies = AddTo(@, id),
                       !.ents[id].killed_by = w.ents[id].initial_killed_by]
        ELSE [w EXCEPT !.ents[id].stunned_timer = Some(t)]

\* DieAndRespawn without the count of the death.
DieAndRespawnUncounted(w, id, score_multiplier) ==
    LET a == w.ents[id]
        moved == SetPosition(a, a.starting_x, a.starting_y)
    IN  [w EXCEPT !.score = @ + a.point_value * score_multiplier,
                  !.ents[id] = [moved EXCEPT !.respawn_timer = Some(RESPAWN_IMMUNITY),
                                             !.stopped_by = a.initial_stopped_by,
                                             !.killed_by = a.initial_killed_by]]

\* Enemy.die_and_respawn(score_multiplier)
DieAndRespawn(w, id, score_multiplier) ==
    LET a == w.ents[id]
        moved == SetPosition(a, a.starting_x, a.starting_y)
    IN  [w EXCEPT !.score = @ + a.point_value * score_multiplier,
                  !.ents[id] = [moved EXCEPT !.deaths = @ + 1,
                                             !.respawn_timer = Some(RESPAWN_IMMUNITY),
                                             !.stopped_by = a.initial_stopped_by,
                                             !.killed_by = a.initial_killed_by]]

\* RespawnUpdate in which a killed enemy dies whatever its countdown.
RespawnUpdateNoImmunity(w, id) ==
    LET a == w.ents[id] IN
    IF a.killed THEN DieAndRespawn(w, id, 1)
    ELSE IF a.respawn_timer # None
    THEN IF Val(a.respawn_timer) = 0
         THEN [w EXCEPT !.ents[id].respawn_timer = None]
         ELSE [w EXCEPT !.ents[id].respawn_timer = Some(Val(@) - 1),
                        !.ents[id].stopped_by = a.reset_stopped_by]
    ELSE w

\* The respawn countdown at the end of Enemy.update.
RespawnUpdate(w, id) ==
    LET a == w.ents[id] IN
    IF a.respawn_timer = None /\ a.killed THEN DieAndRespawn(w, id, 1)
    ELSE IF a.respawn_timer # None
    THEN IF Val(a.respawn_timer) = 0
         THEN [w EXCEPT !.ents[id].respawn_timer = None]
         ELSE IF ~a.killed
         THEN [w EXCEPT !.ents[id].respawn_timer = Some(Val(@) - 1),
                        !.ents[id].stopped_by = a.reset_stopped_by]
         ELSE w
    ELSE w

\* EnemyUpdate in which die_and_respawn leaves the enemy at rest.
EnemyUpdateRespawnsAtRest(w, id, randint, smart) ==
    With(ActorUpdate(w, id), LAMBDA w0 :
    LET init_facing == w.ents[id].facing
        a1 == w0.ents[id]
        w1 == [w0 EXCEPT !.init_facing = init_facing,
                         !.stunned = a1.stunned_timer # None]
        rest(w2) == IF w2.ents[id].deaths # a1.deaths
                    THEN [w2 EXCEPT !.ents[id].vel = Zero] ELSE w2
    IN  IF a1.stunned_timer # None
        THEN With(StunUpdate(w1, id), LAMBDA w2 :
                 IF a1.killed
                 THEN [DieAndRespawn(w2, id, 2) EXCEPT !.ents[id].stunned_timer = None]
                 ELSE w2)
        ELSE IF a1.vel = Zero
             THEN With(ChooseNewDirection(a1, w0.ents[player].pos, init_facing,
                                          randint, smart),
                       LAMBDA facing :
                           rest(RespawnUpdate([w1 EXCEPT !.ents[id].facing = facing,
                                                         !.ents[id].vel = Scale(facing, ENEMY_SPEED),
                                                         !.turned = TRUE], id)))
             ELSE rest(RespawnUpdate(w1, id)))

\* Enemy.update()
EnemyUpdate(w, id, randint, smart) ==
    With(ActorUpdate(w, id), LAMBDA w0 :
    LET init_facing == w.ents[id].facing
        a1 == w0.ents[id]
        w1 == [w0 EXCEPT !.init_facing = init_facing,
                         !.stunned = a1.stunned_timer # None]
    IN  IF a1.stunned_timer # None
        THEN \* the stunned branch
             With(StunUpdate(w1, id), LAMBDA w2 :
                 IF a1.killed
                 THEN [DieAndRespawn(w2, id, 2) EXCEPT !.ents[id].stunned_timer = None]
                 ELSE w2)
        ELSE \* the other branch: a stopped enemy has collided and turns
             IF a1.vel = Zero
             THEN With(ChooseNewDirection(a1, w0.ents[player].pos, init_facing,
                                          randint, smart),
                       LAMBDA facing :
                           RespawnUpdate([w1 EXCEPT !.ents[id].facing = facing,
                                                    !.ents[id].vel = Scale(facing, ENEMY_SPEED),
                                                    !.turned = TRUE], id))
             ELSE RespawnUpdate(w1, id))

---------------------------------------------------------------------------
(* entities/actors.py: Player *)

\* The key states pg.key.get_pressed() can report for the five keys read.
KeyStates == [left : BOOLEAN, right : BOOLEAN, up : BOOLEAN, down : BOOLEAN,
              space : BOOLEAN]

\* No key is down (the keys are not read while the player is frozen).
NoKeys == [left |-> FALSE, right |-> FALSE, up |-> FALSE, down |-> FALSE,
           space |-> FALSE]

\* The key states with none of LEFT, UP and DOWN held.
EastKeys == {keys \in KeyStates : ~keys.left /\ ~keys.up /\ ~keys.down}

\* The key states with none of RIGHT, UP and DOWN held.
WestKeys == {keys \in KeyStates : ~keys.right /\ ~keys.up /\ ~keys.down}

\* Player.push()
Push(w, id) ==
    LET a == w.ents[id]
        hits == SelectSeq(w.blocks, LAMBDA b:
                    /\ CollideCircleRatio(a.pos, w.ents[b].pos, 36, 25)
                    /\ IsActorNeighbourInDirection(a.pos, w.ents[b].pos, a.facing))
        wall_hits == SelectSeq(walls, LAMBDA q:
                         /\ CollideCircleRatio(a.pos, q, 9, 16)
                         /\ IsActorNeighbourInDirection(a.pos, q, a.facing))
    IN  With(hits, LAMBDA blocks_hit :
        With(IF blocks_hit # <<>> THEN RespondToPush(w, blocks_hit[1], a.facing) ELSE w,
             LAMBDA w1 :
                 IF wall_hits # <<>> THEN StunAll(w1, w1.enemies, TRUE) ELSE w1))

\* One `if keys[...]` of Player.get_keys.
Turn(a, pressed, direction) ==
    IF pressed
    THEN [a EXCEPT !.facing = direction, !.vel = Scale(direction, PLAYER_SPEED)]
    ELSE a

\* GetKeys with the keys read in the order DOWN, UP, RIGHT, LEFT.
GetKeysReversed(w, id, keys) ==
    LET a0 == [w.ents[id] EXCEPT !.vel = Zero]
        a1 == Turn(a0, keys.down, DOWN)
        a2 == Turn(a1, keys.up, UP)
        a3 == Turn(a2, keys.right, RIGHT)
        a4 == Turn(a3, keys.left, LEFT)
    IN  With([w EXCEPT !.ents[id] = a4], LAMBDA w1 :
            IF keys.space THEN Push(w1, id) ELSE w1)

\* Player.get_keys()
GetKeys(w, id, keys) ==
    LET a0 == [w.ents[id] EXCEPT !.vel = Zero]
        a1 == Turn(a0, keys.left, LEFT)
        a2 == Turn(a1, keys.right, RIGHT)
        a3 == Turn(a2, keys.up, UP)
        a4 == Turn(a3, keys.down, DOWN)
    IN  With([w EXCEPT !.ents[id] = a4], LAMBDA w1 :
            IF keys.space THEN Push(w1, id) ELSE w1)

\* Player.death_update()
DeathUpdate(w, id) ==
    [w EXCEPT !.ents[id].death_timer = Some(Val(@) - 1)]

\* InitiateDeathSequence without the loss of a life.
InitiateDeathKeepsLives(w, id) ==
    [w EXCEPT !.ents[id].frozen = "True",
              !.ents[id].death_timer = Some(DEATH_TIME)]

\* Player.initiate_death_sequence()
InitiateDeathSequence(w, id) ==
    [w EXCEPT !.lives = @ - 1,
              !.ents[id].frozen = "True",
              !.ents[id].death_timer = Some(DEATH_TIME)]

\* PlayerUpdate with the keys read whether frozen or not.
PlayerUpdateReadsKeys(w, id, keys) ==
    With(ActorUpdate(GetKeys(w, id, keys), id),
         LAMBDA w2 :
             IF w2.ents[id].death_timer # None THEN DeathUpdate(w2, id)
             ELSE IF w2.ents[id].killed THEN InitiateDeathSequence(w2, id)
             ELSE w2)

\* Player.update(), entered with frozen assigned.
PlayerUpdate(w, id, keys) ==
    With(ActorUpdate(IF w.ents[id].frozen = "False" THEN GetKeys(w, id, keys) ELSE w,
                     id),
         LAMBDA w2 :
             IF w2.ents[id].death_timer # None THEN DeathUpdate(w2, id)
             ELSE IF w2.ents[id].killed THEN InitiateDeathSequence(w2, id)
             ELSE w2)

---------------------------------------------------------------------------
(* game.py: the loop of Game.run_game while the level runs *)

\* Game.no_kills()
RECURSIVE SumDeaths(_, _)
SumDeaths(E, group) ==
    IF group = <<>> THEN 0 ELSE E[Head(group)].deaths + SumDeaths(E, Tail(group))

NoKills == SumDeaths(ents, enemies)

\* The deaths of all enemies, whatever group they are in.
TotalDeaths == SumDeaths(ents, IdsOfKind(ents, "Enemy"))

\* The counters and countdowns of a sprite (None for a countdown its class
\* does not have).
Entry(a) ==
    [deaths |-> IF a.kind = "Enemy" THEN a.deaths ELSE 0,
     respawn_timer |-> IF a.kind = "Enemy" THEN a.respawn_timer ELSE None,
     stunned_timer |-> IF a.kind = "Enemy" THEN a.stunned_timer ELSE None,
     death_timer |-> IF a.kind = "Player" THEN a.death_timer ELSE None]

\* The assignments of an update's result to the game, and the observation
\* of its Actor.update: before, score0 and lives0 are the sprite's counters
\* and countdowns, game.score and game.lives when the update was called.
Commit(w, id) ==
    /\ ents' = w.ents
    /\ all_sprites' = w.all_sprites
    /\ blocks' = w.blocks
    /\ moving_blocks' = w.moving_blocks
    /\ enemies' = w.enemies
    /\ stunned_enemies' = w.stunned_enemies
    /\ score' = w.score
    /\ lives' = w.lives
    /\ last' = [id |-> id, killed |-> w.ents[id].killed, calls |-> w.log,
                contact |-> w.contact, final |-> w.final,
                stoppers |-> w.stoppers, pushes |-> w.pushes,
                init_facing |-> w.init_facing, stunned |-> w.stunned,
                turned |-> w.turned, stuns |-> w.stuns,
                before |-> Entry(ents[id]), score0 |-> score, lives0 |-> lives]
    /\ queue' = Tail(queue)
    /\ UNCHANGED <<walls, player, timer, kill_bonus, file, level, state,
                   game_state,
                   display_timer, dt, pc, err>>

Running == err = "" /\ state = "PLAY"

\* The sprites are within MaxStray tiles of the wall ring.
InRange ==
    LET lo == Tenths(-MaxStray * TILE_SIZE, 0)
        hix == Tenths((Len(level[1]) + 1 + MaxStray) * TILE_SIZE, 0)
        hiy == Tenths((Len(level) + 1 + MaxStray) * TILE_SIZE + INFO_HEIGHT, 0)
    IN  \A i \in 1..Len(ents) :
            /\ lo <= ents[i].pos[1] /\ ents[i].pos[1] <= hix
            /\ lo + Tenths(INFO_HEIGHT, 0) <= ents[i].pos[2] /\ ents[i].pos[2] <= hiy

\* The decrements of the player's death countdown so far.
DyingTicks ==
    IF ents[player].death_timer = None THEN 0
    ELSE DEATH_TIME - Val(ents[player].death_timer)

\* The top of a loop iteration: clock.tick, then Game.update starts on a
\* snapshot of all_sprites.  No iteration starts once the death countdown
\* has been decremented more than max_dying times.
Tick(max_dying) ==
    /\ Running /\ pc = "loop" /\ game_state = "RUNNING"
    /\ TotalDeaths <= MaxDeaths /\ InRange /\ DyingTicks <= max_dying
    /\ dt' \in Dts
    /\ queue' = all_sprites
    /\ pc' = "update"
    /\ UNCHANGED <<setup, file, level, score, lives, state, game_state,
                   display_timer, err, last>>

BeginTick == Tick(MaxDying)

\* The top of a loop iteration of the running level as Tick, with the TIMER
\* events Game.events finds (one of `events` in number): each takes one
\* from the level timer.
TickEvents(max_dying, events) ==
    /\ Running /\ pc = "loop" /\ game_state = "RUNNING"
    /\ TotalDeaths <= MaxDeaths /\ InRange /\ DyingTicks <= max_dying
    /\ timer >= -MaxOverrun /\ lives >= -MaxOverrun
    /\ \E n_events \in events : timer' = timer - n_events
    /\ dt' \in Dts
    /\ queue' = all_sprites
    /\ pc' = "update"
    /\ UNCHANGED <<ents, walls, all_sprites, blocks, moving_blocks, enemies,
                   stunned_enemies, player, kill_bonus, file, level, score, lives,
                   state, game_state, display_timer, err, last>>

Next1Kind(kind) ==
    /\ Running /\ pc = "update" /\ queue # <<>>
    /\ ents[Head(queue)].kind = kind

\* all_sprites.update() reaches a Block.
UpdateBlock ==
    /\ Next1Kind("Block")
    /\ \E w \in {BlockUpdate(World, Head(queue))} : Commit(w, Head(queue))

\* all_sprites.update() reaches an EggBlock, whose update is Block.update.
UpdateEggBlock ==
    /\ Next1Kind("EggBlock")
    /\ \E w \in {BlockUpdate(World, Head(queue))} : Commit(w, Head(queue))

\* all_sprites.update() reaches a Diamond.  Reading the attribute stopped
\* before any assignment to it raises AttributeError, which ends the process.
UpdateDiamond ==
    /\ Next1Kind("Diamond")
    /\ IF ents[Head(queue)].stopped = "unset"
       THEN /\ err' = "AttributeError"
            /\ UNCHANGED <<setup, file, level, score, lives, state, game_state,
                           display_timer, dt, pc, queue, last>>
       ELSE \E w \in {DiamondUpdate(World, Head(queue))} : Commit(w, Head(queue))

\* all_sprites.update() reaches an Enemy.
\* The random numbers are drawn only where choose_new_direction is called.
UpdateEnemy ==
    /\ Next1Kind("Enemy")
    /\ \E randint \in 0..2, smart \in BOOLEAN :
           \E w \in {EnemyUpdate(World, Head(queue), randint, smart)} :
               /\ w.turned \/ (randint = 0 /\ ~smart)
               /\ Commit(w, Head(queue))

\* all_sprites.update() reaches the Player, with the keys in one of the
\* states of keyset.  Reading the attribute frozen before any assignment to
\* it raises AttributeError, which ends the process.
PlayerStep(keyset) ==
    /\ Next1Kind("Player")
    /\ IF ents[Head(queue)].frozen = "unset"
       THEN /\ err' = "AttributeError"
            /\ UNCHANGED <<setup, file, level, score, lives, state, game_state,
                           display_timer, dt, pc, queue, last>>
       ELSE \E keys \in IF ents[Head(queue)].frozen = "True"
                         THEN {NoKeys} ELSE keyset :
                \E w \in {PlayerUpdate(World, Head(queue), keys)} :
                    Commit(w, Head(queue))

UpdatePlayer == PlayerStep(KeyStates)

\* LivesCheck with the game over only below zero lives.
LivesCheckBelowZero(n_lives) == IF n_lives < 0 THEN "GAME_OVER" ELSE "RESET"

\* The test of game.lives when the death countdown is at zero.
LivesCheck(n_lives) == IF n_lives = 0 THEN "GAME_OVER" ELSE "RESET"

\* The rest of the running branch, after Game.update: the display timer,
\* the end of the death countdown (game over, or setup_play(reset=True) and
\* READY), the kill bonus and the end of the level's time.
EndTick ==
    /\ Running /\ pc = "update" /\ queue = <<>>
    /\ pc' = "loop"
    /\ \E s \in {SetupPlay(level, "False")} :
       LET dead == ents[player].death_timer = Some(0)
           over == dead /\ LivesCheck(lives) = "GAME_OVER"
           reset == dead /\ LivesCheck(lives) = "RESET"
           display1 == IF display_timer # None /\ display_timer = Some(timer)
                       THEN None ELSE display_timer
           timer1 == IF reset THEN s.timer ELSE timer
           bonus1 == IF reset THEN s.kill_bonus ELSE kill_bonus
           kills1 == IF reset THEN 0 ELSE NoKills
           target == bonus1 = None /\ kills1 >= TARGET_NO_KILLS
           half_time == TIME_LIMIT \div 2
       IN  /\ state' = IF over THEN "GAME_OVER" ELSE state
           /\ IF reset
              THEN /\ ents' = s.ents
                   /\ walls' = s.walls
                   /\ all_sprites' = s.all_sprites
                   /\ blocks' = s.blocks
                   /\ moving_blocks' = s.moving_blocks
                   /\ enemies' = s.enemies
                   /\ stunned_enemies' = s.stunned_enemies
                   /\ player' = s.player
              ELSE UNCHANGED <<ents, walls, all_sprites, blocks, moving_blocks,
                               enemies, stunned_enemies, player>>
           /\ timer' = timer1
           /\ display_timer' = IF target THEN Some(timer1 - 2) ELSE display1
           /\ kill_bonus' = IF ~target THEN bonus1
                            ELSE IF timer1 >= half_time
                            THEN Some(((timer1 - half_time) \div 10)
                                      * ENEMY_CLEARANCE_BONUS)
                            ELSE Some(0)
           /\ game_state' = IF timer1 = 0 THEN "COMPLETE"
                            ELSE IF reset THEN "READY" ELSE game_state
           /\ score' = IF reset THEN SetupScore(TRUE, score) ELSE score
    /\ last' = [id |-> 0]
    /\ UNCHANGED <<file, level, lives, dt, queue, err>>

\* The display timer after Game.events has taken n_events TIMER events while
\* the level does not run.
Shown(n_events) ==
    IF n_events = 0 THEN display_timer ELSE Some(Val(display_timer) - n_events)

\* The display timer is not more than MaxOverrun below zero.
DisplayInRange ==
    IF display_timer = None THEN TRUE ELSE Val(display_timer) >= -MaxOverrun

\* A READY branch whose events() takes every TIMER event from the level
\* timer, whatever the in-game state.
ReadyEventsFromLevelTimer(events) ==
    /\ Running /\ pc = "loop" /\ game_state = "READY"
    /\ DisplayInRange /\ timer >= -MaxOverrun
    /\ \E n_events \in events :
           /\ timer' = timer - n_events
           /\ display_timer' = IF display_timer = None THEN Some(1)
                               ELSE IF display_timer = Some(0) THEN None
                               ELSE display_timer
           /\ game_state' = IF display_timer = Some(0) THEN "RUNNING" ELSE game_state
           /\ dt' \in Dts
           /\ UNCHANGED <<ents, walls, all_sprites, blocks, moving_blocks, enemies,
                          stunned_enemies, player, kill_bonus, file, level, score,
                          lives, state, pc, queue, err, last>>

\* A loop iteration of the READY branch: events() takes the TIMER events
\* that have arrived (one of `events` in number), which raises TypeError
\* while display_timer is None; then the display starts, goes on, or ends
\* and the level runs.
ReadyEvents(events) ==
    /\ Running /\ pc = "loop" /\ game_state = "READY"
    /\ DisplayInRange
    /\ \E n_events \in events :
           IF n_events > 0 /\ display_timer = None
           THEN /\ err' = "TypeError"
                /\ UNCHANGED <<setup, file, level, score, lives, state, game_state,
                               display_timer, dt, pc, queue, last>>
           ELSE \E shown \in {Shown(n_events)} :
                    /\ display_timer' = IF shown = None THEN Some(1)
                                        ELSE IF shown = Some(0) THEN None
                                        ELSE shown
                    /\ game_state' = IF shown = Some(0) THEN "RUNNING" ELSE game_state
                    /\ dt' \in Dts
                    /\ UNCHANGED <<setup, file, level, score, lives, state, pc, queue,
                                   err, last>>

\* The READY branch when at most one TIMER event arrives in an iteration.
Ready == ReadyEvents({0, 1})

\* A loop iteration of the COMPLETE branch: events() as in READY; then the
\* display starts, goes on, or ends with setup_play(reset=True) and READY.
CompleteEvents(events) ==
    /\ Running /\ pc = "loop" /\ game_state = "COMPLETE"
    /\ DisplayInRange
    /\ \E n_events \in events :
           IF n_events > 0 /\ display_timer = None
           THEN /\ err' = "TypeError"
                /\ UNCHANGED <<setup, file, level, score, lives, state, game_state,
                               display_timer, dt, pc, queue, last>>
           ELSE \E shown \in {Shown(n_events)}, s \in {SetupPlay(level, "False")} :
                    /\ dt' \in Dts
                    /\ IF shown = Some(0)
                       THEN /\ display_timer' = None
                            /\ ents' = s.ents
                            /\ walls' = s.walls
                            /\ all_sprites' = s.all_sprites
                            /\ blocks' = s.blocks
                            /\ moving_blocks' = s.moving_blocks
                            /\ enemies' = s.enemies
                            /\ stunned_enemies' = s.stunned_enemies
                            /\ player' = s.player
                            /\ timer' = s.timer
                            /\ kill_bonus' = s.kill_bonus
                            /\ score' = SetupScore(TRUE, score)
                            /\ game_state' = "READY"
                       ELSE /\ display_timer' = IF shown = None THEN Some(1) ELSE shown
                            /\ UNCHANGED <<setup, score, game_state>>
                    /\ UNCHANGED <<file, level, lives, state, pc, queue, err, last>>

\* level.load_level(self) and the rest of setup_play: an exception of
\* parse_input_file ends the process before any sprite is made.
LoadLevel ==
    /\ pc = "load" /\ err = ""
    /\ \E parsed \in {ParseInputFile(file)} :
           IF parsed.error # ""
           THEN /\ err' = parsed.error
                /\ UNCHANGED <<setup, file, level, score, lives, state, game_state,
                               display_timer, dt, pc, queue, last>>
           ELSE \E frozen \in {"unset", "False"} :
                    \E s \in {SetupPlay(parsed.element_grid, frozen)} :
                        /\ level' = parsed.element_grid
                        /\ ents' = s.ents
                        /\ walls' = s.walls
                        /\ all_sprites' = s.all_sprites
                        /\ blocks' = s.blocks
                        /\ moving_blocks' = s.moving_blocks
                        /\ enemies' = s.enemies
                        /\ stunned_enemies' = s.stunned_enemies
                        /\ player' = s.player
                        /\ timer' = s.timer
                        /\ kill_bonus' = s.kill_bonus
                        /\ pc' = "loop"
                        /\ UNCHANGED <<file, score, lives, state, game_state,
                                       display_timer, dt, queue, err, last>>

\* The update() all_sprites.update() calls on sprite id: its class's.
UpdateOne(w, id, keys, randint, smart) ==
    CASE w.ents[id].kind = "Block" -> BlockUpdate(w, id)
      [] w.ents[id].kind = "EggBlock" -> BlockUpdate(w, id)
      [] w.ents[id].kind = "Diamond" -> DiamondUpdate(w, id)
      [] w.ents[id].kind = "Enemy" -> EnemyUpdate(w, id, randint, smart)
      [] w.ents[id].kind = "Player" -> PlayerUpdate(w, id, keys)

\* Game.update(): all_sprites.update() calling the sprites in `order`.
RECURSIVE UpdateAll(_, _, _, _, _)
UpdateAll(w, order, keys, randint, smart) ==
    IF order = <<>> THEN w
    ELSE UpdateAll(UpdateOne(w, Head(order), keys, randint, smart),
                   Tail(order), keys, randint, smart)

Next == BeginTick \/ UpdateBlock \/ UpdateEnemy \/ UpdatePlayer \/ EndTick

\* The loop on a level without enemies.
NextPush == BeginTick \/ UpdateBlock \/ UpdatePlayer \/ EndTick

Spec == Init /\ [][Next]_vars

\* The runs of the level with an enemy in the block's way.
SpecSquash == InitSquash /\ [][Next]_vars

\* The runs of the level with an enemy in the block's way in which the
\* player goes east and pushes only.
NextEast == BeginTick \/ UpdateBlock \/ UpdateEnemy \/ PlayerStep(EastKeys) \/ EndTick
SpecEast == InitSquash /\ [][NextEast]_vars

\* The runs of the death sequences: the whole death countdown, the reset of
\* the level and the READY display between two lives.
NextLives == Tick(DEATH_TIME) \/ UpdateEnemy \/ UpdatePlayer \/ EndTick \/ Ready
SpecLives == InitLives /\ [][NextLives]_vars

\* The runs of the level with diamonds in which no key is pressed; no loop
\* iteration starts once MaxBonuses line-up bonuses are in the score.
TickDiamonds == score < MaxBonuses * DIAMOND_LINEUP_BONUS /\ Tick(MaxDying)
NextDiamonds ==
    TickDiamonds \/ PlayerStep({NoKeys}) \/ UpdateEnemy \/ UpdateDiamond \/ EndTick
SpecDiamonds == InitDiamonds /\ [][NextDiamonds]_vars

\* The runs of the blocked pushes, in which the player goes east and pushes
\* only.
NextBreak ==
    \/ TickDiamonds \/ PlayerStep(EastKeys) \/ UpdateBlock \/ UpdateEggBlock
    \/ UpdateDiamond \/ EndTick
SpecBreak == InitBreak /\ [][NextBreak]_vars

\* The runs of the level of the stuns, in which the player turns west and
\* pushes only.
NextStun ==
    TickDiamonds \/ PlayerStep(WestKeys) \/ UpdateEnemy \/ UpdateDiamond \/ EndTick
SpecStun == InitStun /\ [][NextStun]_vars

\* The game of the level of the end-to-end push in which no key is pressed,
\* with the TIMER events: the READY display, the level running down its
\* time, the COMPLETE display and the level set up again.
TimerEvents == 0..MaxEvents
NextTimer ==
    \/ ReadyEvents(TimerEvents) \/ TickEvents(MaxDying, TimerEvents)
    \/ PlayerStep(EastKeys) \/ UpdateBlock \/ EndTick
    \/ CompleteEvents(TimerEvents)
SpecTimer == InitTimer /\ [][NextTimer]_vars

\* The last life of a game of the level of the death sequences in which no
\* key is pressed and at most one TIMER event arrives in an iteration.
NextLastLife ==
    \/ ReadyEvents({0, 1}) \/ TickEvents(DEATH_TIME, {0, 1})
    \/ UpdateEnemy \/ PlayerStep({NoKeys}) \/ EndTick
    \/ CompleteEvents({0, 1})
SpecLastLife == InitLastLife /\ [][NextLastLife]_vars

\* The loads of the level files.
NextLoad == LoadLevel
SpecLoad == InitLoad /\ [][NextLoad]_vars

\* The runs of the level whose enemy is updated before the player.
NextEnemyFirst == BeginTick \/ UpdateEnemy \/ UpdatePlayer \/ EndTick
SpecEnemyFirst == InitEnemyFirst /\ [][NextEnemyFirst]_vars

\* all_sprites.update() has a sprite still to update, and a step that
\* updates one (or ends the process in it).  The update actions are enabled
\* exactly when UpdatePending holds.
UpdatePending == Running /\ pc = "update" /\ queue # <<>>
UpdateDone == queue' = Tail(queue) \/ err' # err

\* The runs of the end-to-end push.  run_game's loop keeps iterating while
\* the level runs, so a step that stays possible is eventually taken: weak
\* fairness of the top and the end of the loop body and of the sprites'
\* updates, the latter with ENABLED written out as UpdatePending.
SpecPush ==
    /\ InitPush /\ [][NextPush]_vars
    /\ WF_vars(BeginTick) /\ WF_vars(EndTick)
    /\ ([]<>(~UpdatePending) \/ []<><<UpdateDone>>_vars)

\* The game of SpecTimer while TIMER events keep arriving: the loop goes on (weak
\* fairness of the loop's steps, as in SpecPush), and an iteration that
\* finds a TIMER event stays possible until one is taken.
SomeEvents == 1..MaxEvents
SpecTimerFair ==
    /\ InitTimer /\ [][NextTimer]_vars
    /\ WF_vars(ReadyEvents(SomeEvents))
    /\ WF_vars(TickEvents(MaxDying, SomeEvents))
    /\ WF_vars(CompleteEvents(SomeEvents))
    /\ WF_vars(EndTick)
    /\ ([]<>(~UpdatePending) \/ []<><<UpdateDone>>_vars)

---------------------------------------------------------------------------
(* Properties.  `last` is the observation of the Actor.update that has     *)
(* just returned (id 0: none since the loop body began or ended).          *)

EnemyIds == {i \in 1..Len(ents) : ents[i].kind = "Enemy"}
BlockIds == {i \in 1..Len(ents) : ents[i].kind = "Block"}
Updated == last.id # 0

\* C1: an Actor.update whose fatal check marks the actor killed makes no
\* collide_and_stop call against a group of the actor's stopped_by list.
C1_FatalExcludesStop ==
    (Updated /\ last.killed) =>
        \A i \in 1..Len(last.calls) : ~Member(last.stoppers, last.calls[i].group)

\* An update has marked its actor killed, after a fatal check that hit.
C1_Witness ==
    /\ Updated /\ last.killed
    /\ \E i \in 1..Len(last.calls) : last.calls[i].hits # <<>>

\* C2: when an Actor.update marks the actor killed, the actor's position at
\* the end of Actor.update is the position integration and snap produced:
\* the fatal check has not moved it.
C2_KilledStaysAtContact ==
    (Updated /\ last.killed) => last.final = last.contact

\* C3: after an Actor.update that does not mark the actor killed, the
\* actor's rect overlaps no member, other than the actor, of a group of its
\* stopped_by list.
C3_NoOverlapAfterUpdate ==
    (Updated /\ ~last.killed) =>
        \A i \in 1..Len(last.stoppers) :
            LET members == GroupSprites(World, last.stoppers[i])
            IN  \A j \in 1..Len(members) :
                    members[j].id # last.id
                        => ~CollideRect(last.final, members[j].pos)

\* C4: respond_to_push(direction) of a block with no block or wall as
\* neighbour in the direction sets the velocity BLOCK_SPEED * direction and
\* moves the block from game.blocks to game.moving_blocks; with such a
\* neighbour the block is killed (blocked_push_response), gets no velocity
\* and does not join game.moving_blocks.
C4_PushResponse ==
    Updated =>
        \A i \in 1..Len(last.pushes) :
            LET p == last.pushes[i]
                b == ents[p.id]
                ahead ==
                    \/ \E j \in 1..Len(p.blocks) :
                           IsActorNeighbourInDirection(b.pos, ents[p.blocks[j]].pos,
                                                       p.direction)
                    \/ \E j \in 1..Len(walls) :
                           IsActorNeighbourInDirection(b.pos, walls[j], p.direction)
            IN  IF ahead
                THEN /\ ~Member(all_sprites, p.id) /\ ~Member(blocks, p.id)
                     /\ b.vel = Zero
                     /\ ~Member(moving_blocks, p.id)
                ELSE /\ b.vel = Scale(p.direction, BLOCK_SPEED)
                     /\ ~Member(blocks, p.id)
                     /\ Member(moving_blocks, p.id)

\* A push has set a block moving.
C4_Witness ==
    /\ Updated /\ last.pushes # <<>>
    /\ Member(moving_blocks, last.pushes[1].id)
    /\ ents[last.pushes[1].id].vel # Zero

\* C5: at the end of a loop iteration a live block whose velocity is zero
\* is in game.blocks and not in game.moving_blocks, so a block that stopped
\* during the iteration has been moved back in it.
C5_StoppedBlockRejoinsSameTick ==
    pc = "loop" =>
        \A b \in BlockIds :
            (Member(all_sprites, b) /\ ents[b].vel = Zero)
                => (Member(blocks, b) /\ ~Member(moving_blocks, b))

\* The block of the end-to-end push, and where setup_play put it.
PushedBlock == CHOOSE b \in BlockIds : TRUE
PushStart == SetupPlay(level, "False").ents[PushedBlock].pos

\* The player's update has pushed the block east from its start position.
PushedEast ==
    /\ Updated /\ last.pushes # <<>>
    /\ last.pushes[1].id = PushedBlock
    /\ last.pushes[1].direction = RIGHT
    /\ ents[PushedBlock].pos = PushStart

\* The block is at rest one tile east of its start, in game.blocks only.
AtRestOneTileEast ==
    /\ ents[PushedBlock].pos = Add(PushStart, Scale(RIGHT, Tenths(TILE_SIZE, 0)))
    /\ ents[PushedBlock].vel = Zero
    /\ Member(blocks, PushedBlock)
    /\ ~Member(moving_blocks, PushedBlock)

C7_StationaryBlockNeverSquashes ==
    (Updated /\ last.id \in EnemyIds /\ last.killed) =>
        \A i \in 1..Len(last.calls) :
            last.calls[i].group = "moving_blocks"
                => \A j \in 1..Len(last.calls[i].hits) :
                       last.calls[i].hits[j].vel # Zero

\* The three turns from a facing: reverse, and the two perpendiculars.
TurnsFrom(facing) ==
    {Scale(facing, -1), Vec(facing[2], -facing[1]), Vec(-facing[2], facing[1])}

\* C8: an Enemy.update that chooses a new direction leaves a facing that is
\* the reverse or a perpendicular of the facing on entry; and for every
\* enemy and player position reached, every hunt and every random outcome,
\* choose_new_direction returns such a turn from init_facing.
C8_TurnsAwayFromCollision ==
    /\ (Updated /\ last.turned) => ents[last.id].facing \in TurnsFrom(last.init_facing)
    /\ \A e \in EnemyIds :
           \A hunt \in BOOLEAN, randint \in 0..2, smart \in BOOLEAN :
               ChooseNewDirection([ents[e] EXCEPT !.hunt = hunt], ents[player].pos,
                                  ents[e].facing, randint, smart)
                   \in TurnsFrom(ents[e].facing)

\* An enemy that a stopper has stopped has chosen a new direction.
C8_Witness ==
    /\ Updated /\ last.turned /\ ~last.killed
    /\ \E i \in 1..Len(last.calls) : last.calls[i].hits # <<>>

\* C9: a stunned enemy has zero velocity and is killed by the player's
\* group alone; an enemy that is not stunned is killed by its initial
\* groups, and the update of an enemy that is not stunned leaves it moving.
C9_StunnedThenResumes ==
    /\ \A e \in EnemyIds :
           IF ents[e].stunned_timer # None
           THEN ents[e].vel = Zero /\ ents[e].killed_by = <<"player_group">>
           ELSE ents[e].killed_by = ents[e].initial_killed_by
    /\ (Updated /\ last.id \in EnemyIds /\ ~last.stunned)
           => ents[last.id].vel # Zero

\* An enemy whose stun has run out, and which has never died, has resumed
\* moving in an update that met no obstacle.
C9_Witness ==
    /\ Updated /\ last.id \in EnemyIds /\ ~last.stunned /\ last.turned
    /\ ents[last.id].deaths = 0
    /\ \A i \in 1..Len(last.calls) : last.calls[i].hits = <<>>

\* C10: every enemy is in exactly one of game.enemies and
\* game.stunned_enemies, and in game.stunned_enemies exactly while its
\* stunned_timer is not None.
C10_StunMembership ==
    \A e \in EnemyIds :
        /\ Member(enemies, e) # Member(stunned_enemies, e)
        /\ Member(stunned_enemies, e) <=> (ents[e].stunned_timer # None)

\* C11: an enemy whose respawn countdown is running (respawn_timer neither
\* None nor zero) has the walls-only stopped_by list of die_and_respawn; the
\* list with the blocks comes back only when the countdown is at zero.
C11_ImmuneStoppedByWalls ==
    \A e \in EnemyIds :
        (ents[e].respawn_timer # None /\ Val(ents[e].respawn_timer) > 0)
            => ents[e].stopped_by = ents[e].initial_stopped_by

\* C12: an Enemy.update that marks the enemy killed while its respawn_timer
\* was None on entry adds point_value to game.score (twice point_value if
\* the enemy was stunned), adds one to deaths, puts the enemy at its spawn
\* tile (starting_x, starting_y), sets respawn_timer to RESPAWN_IMMUNITY and
\* leaves the enemy in game.all_sprites.
C12_FatalHitRespawns ==
    (Updated /\ last.id \in EnemyIds /\ last.killed
        /\ last.before.respawn_timer = None) =>
        LET e == ents[last.id]
            multiplier == IF last.stunned THEN 2 ELSE 1
        IN  /\ score = last.score0 + multiplier * e.point_value
            /\ e.deaths = last.before.deaths + 1
            /\ e.pos = TilePos(e.starting_x, e.starting_y)
            /\ e.respawn_timer = Some(RESPAWN_IMMUNITY)
            /\ Member(all_sprites, last.id)

\* A moving block has killed an enemy that was neither stunned nor immune.
C12_Witness ==
    /\ Updated /\ last.id \in EnemyIds /\ last.killed
    /\ last.before.respawn_timer = None /\ ~last.stunned
    /\ \E i \in 1..Len(last.calls) :
           last.calls[i].group = "moving_blocks" /\ last.calls[i].hits # <<>>

\* The player's death countdown is set; the step is the Player.update of
\* all_sprites.update(); the step is the rest of the loop body after it.
Dying == ents[player].death_timer # None
PlayerUpdateStep ==
    /\ pc = "update" /\ queue # <<>> /\ Head(queue) = player
    /\ queue' = Tail(queue)
EndTickStep == pc = "update" /\ queue = <<>> /\ pc' = "loop"

\* Where setup_play puts the player.
PlayerStart == SetupPlay(level, "False").ents[player].pos

\* The end of the death sequence: with lives left the level is set up again
\* (the player at its start position, not dying, reading the keys) and the
\* READY display begins; with none the game is over.
DeathSequenceEnds ==
    IF lives > 0
    THEN /\ state' = "PLAY" /\ game_state' = "READY"
         /\ ents'[player'].pos = PlayerStart
         /\ ents'[player'].death_timer = None
         /\ ents'[player'].frozen = "False"
    ELSE state' = "GAME_OVER"

LastLifeLost == Dying /\ lives = 0

DyingPlayerNext ==
    /\ pc = "update" /\ queue # <<>> /\ Head(queue) = player
    /\ Dying

OneLower(before, after) ==
    (before # None /\ Val(before) > 0) =>
        IF Val(before) = 1 THEN after \in {None, Some(0)}
        ELSE after = Some(Val(before) - 1)

\* C16: every update of a sprite takes exactly one from each of its
\* countdowns that was running when the update was called (the player's
\* death_timer, an enemy's stunned_timer and respawn_timer): none is
\* skipped, restarted or cleared before zero.
C16_CountdownsDecrement ==
    Updated =>
        /\ last.id = player
               => OneLower(last.before.death_timer, ents[last.id].death_timer)
        /\ last.id \in EnemyIds
               => /\ OneLower(last.before.stunned_timer, ents[last.id].stunned_timer)
                  /\ OneLower(last.before.respawn_timer, ents[last.id].respawn_timer)

\* The orders in which a group's sprites can be iterated.
Orders(group) ==
    {order \in [1..Len(group) -> {group[i] : i \in 1..Len(group)}] :
        \A i, j \in 1..Len(group) : order[i] = order[j] => i = j}

\* The members of a group, without their order.
Members(group) == {group[i] : i \in 1..Len(group)}

\* What a tick leaves: each sprite's position, velocity, facing and killed
\* flag, the groups' members, the score and the lives.
Outcome(w) ==
    [sprites |-> [i \in 1..Len(w.ents) |->
                     <<w.ents[i].pos, w.ents[i].vel, w.ents[i].facing,
                       w.ents[i].killed>>],
     all_sprites |-> Members(w.all_sprites), blocks |-> Members(w.blocks),
     moving_blocks |-> Members(w.moving_blocks), enemies |-> Members(w.enemies),
     stunned_enemies |-> Members(w.stunned_enemies),
     score |-> w.score, lives |-> w.lives]

\* C17: at the top of a loop iteration of the running level, for every
\* state of the keys and every random outcome, Game.update leaves the same
\* positions, velocities, facings, killed flags, group members, score and
\* lives whatever the order in which it calls the sprites of all_sprites.
C17_OrderIndependent ==
    (Running /\ pc = "loop" /\ game_state = "RUNNING"
        /\ ents[player].frozen # "unset") =>
        \A keys \in KeyStates, randint \in 0..2, smart \in BOOLEAN :
            \A order \in Orders(all_sprites) :
                Outcome(UpdateAll(World, order, keys, randint, smart))
                    = Outcome(UpdateAll(World, all_sprites, keys, randint, smart))

\* The groups of blocks and enemies sprite e is in.
Membership(w, e) ==
    <<Member(w.blocks, e), Member(w.moving_blocks, e),
      Member(w.enemies, e), Member(w.stunned_enemies, e)>>

\* The sprites of `order` whose update, in a Game.update calling them in
\* that order, changes the membership of sprite e.
RECURSIVE Changers(_, _, _, _, _, _)
Changers(w, order, keys, randint, smart, e) ==
    IF order = <<>> THEN {}
    ELSE With(UpdateOne(w, Head(order), keys, randint, smart), LAMBDA w1 :
             (IF Membership(w1, e) # Membership(w, e) THEN {Head(order)} ELSE {})
                 \cup Changers(w1, Tail(order), keys, randint, smart, e))

\* C18: at the top of a loop iteration of the running level, for every
\* state of the keys and every random outcome, at most one update of the
\* Game.update that follows (a sprite's own update, or the update of the
\* player whose push() acts on it) changes the membership of any one sprite
\* in game.blocks, game.moving_blocks, game.enemies, game.stunned_enemies.
C18_OneMembershipWriter ==
    (Running /\ pc = "loop" /\ game_state = "RUNNING"
        /\ ents[player].frozen # "unset") =>
        \A keys \in KeyStates, randint \in 0..2, smart \in BOOLEAN :
            \A e \in 1..Len(ents) :
                Cardinality(Changers(World, all_sprites, keys, randint, smart, e)) <= 1

DiamondIds == {i \in 1..Len(ents) : ents[i].kind = "Diamond"}

\* The enlarged rects (ratio 1.2) of diamonds a and b overlap.
Overlap(a, b) == CollideRectRatio(ents[a].pos, ents[b].pos, 12)
AllOverlap == \A a, b \in DiamondIds : Overlap(a, b)
SomeHub == \E hub \in DiamondIds : \A d \in DiamondIds : Overlap(hub, d)

\* The Diamond.update just made added to the score or stunned an enemy.
BonusFired ==
    /\ Updated
    /\ last.id \in DiamondIds
    /\ (score # last.score0 \/ last.stuns # <<>>)

\* C19 as stated: a Diamond.update adds to game.score or stuns an enemy only
\* when every diamond overlaps every other diamond under the
\* enlarged-rectangle test.
C19_AllPairsOverlap == BonusFired => AllOverlap

\* C19, amended: a Diamond.update adds to game.score or stuns an enemy only
\* when some diamond overlaps every diamond under the enlarged-rectangle
\* test; when no diamond does, the update leaves game.score unchanged and
\* stuns no enemy.
C19_HubOverlaps ==
    (Updated /\ last.id \in DiamondIds) =>
        /\ BonusFired => SomeHub
        /\ ~SomeHub => (score = last.score0 /\ last.stuns = <<>>)

\* The bonus has fired for three diamonds in a line, whose end diamonds do
\* not overlap.
C19_Witness ==
    /\ BonusFired
    /\ score = last.score0 + DIAMOND_LINEUP_BONUS
    /\ last.stuns # <<>>
    /\ SomeHub
    /\ ~AllOverlap

\* C20: no diamond moves in the runs of the level with diamonds, so that
\* their formation is the same in every state, and nothing else scores: the
\* score holds the line-up bonus at most once.
C20_BonusOnce == score <= DIAMOND_LINEUP_BONUS

\* A destroyed sprite: it is in none of all_sprites, blocks, moving_blocks.
Destroyed(w, b) ==
    ~Member(w.all_sprites, b) /\ ~Member(w.blocks, b) /\ ~Member(w.moving_blocks, b)

\* What respond_to_push(d) makes of sprite b of game.blocks, by its class.
BreakOutcome(b, d) ==
    \E w \in {RespondToPush(World, b, d)} :
        CASE ents[b].kind = "Block" -> Destroyed(w, b) /\ w.score = score
          [] ents[b].kind = "EggBlock" ->
                 Destroyed(w, b) /\ w.score = score + EGG_BREAK_POINTS
          [] ents[b].kind = "Diamond" ->
                 /\ w.ents = ents /\ w.score = score
                 /\ w.all_sprites = all_sprites /\ w.blocks = blocks
                 /\ w.moving_blocks = moving_blocks
                 /\ Member(w.all_sprites, b) /\ Member(w.blocks, b)
                 /\ w.ents[b].vel = Zero

\* A sprite that is neither in all_sprites nor among the sprites the
\* running all_sprites.update() has still to call stays so.
DestroyedStays ==
    \A b \in 1..Len(ents) :
        (~Member(all_sprites, b) /\ ~Member(queue, b))
            => (~Member(all_sprites', b) /\ ~Member(queue', b))

C22_NoStepFails == err = ""

\* setup_play's call of load_level has returned or ended in an exception.
LoadDone == pc # "load" \/ err # ""

\* The rows are not all of equal length, hold a token that is no key of
\* ELEMENTS, or are more or longer than the grid allows.
Invalid(rows) ==
    \/ \E i, j \in 1..Len(rows) : Len(rows[i]) # Len(rows[j])
    \/ \E i \in 1..Len(rows) : \E c \in 1..Len(rows[i]) : rows[i][c] \notin ElementKeys
    \/ Len(rows) > MAX_GRID_HEIGHT - 2
    \/ \E i \in 1..Len(rows) : Len(rows[i]) > MAX_GRID_WIDTH - 2

\* The Level's attributes are unset and no sprite has been made.
NoPartialEffect ==
    /\ level = None
    /\ ParseInputFile(file).element_grid = None
    /\ ParseInputFile(file).element_height = None
    /\ ParseInputFile(file).element_width = None
    /\ ents = <<>> /\ all_sprites = <<>> /\ player = 0

\* C23 as stated: the load of a file whose rows are not all of equal
\* length, that holds a token outside ELEMENTS or that is too large ends in
\* an error, and a load that ends in an error leaves the Level's attributes
\* unset and makes no sprite.
C23_InvalidFileFails ==
    LoadDone => /\ Invalid(file) => err # ""
                /\ err # "" => NoPartialEffect

\* The lines of a file as parse_input_file reads them: stripped.
Stripped(f) == [i \in 1..Len(f) |-> Strip(f[i])]

\* C23, amended: the same for the rows with the leading and trailing white
\* space of each line stripped.
C23_InvalidStrippedFails ==
    LoadDone => /\ Invalid(Stripped(file)) => err # ""
                /\ err # "" => NoPartialEffect

\* A load has ended in the error for rows of unequal length.
C23_Witness ==
    /\ LoadDone /\ err = "AssertionError"
    /\ \E i, j \in 1..Len(file) : Len(Strip(file[i])) # Len(Strip(file[j]))
    /\ NoPartialEffect

\* C24: after a successful load there is exactly one Player among the
\* sprites and game.player is that sprite.
C24_OnePlayer ==
    (LoadDone /\ err = "") =>
        /\ Len(IdsOfKind(ents, "Player")) = 1
        /\ IdsOfKind(ents, "Player") = <<player>>
        /\ Member(all_sprites, player)

C26_AllXBeforeY ==
    (Updated /\ Len(last.stoppers) > 1) =>
        \A i, j \in 1..Len(last.calls) :
            (/\ i < j
             /\ Member(last.stoppers, last.calls[i].group)
             /\ Member(last.stoppers, last.calls[j].group))
                => ~(last.calls[i].axis = "Y" /\ last.calls[j].axis = "X")

\* The sprite groups a collide_and_stop call is made against.
CheckGroups == {"walls", "blocks", "moving_blocks", "enemies"}

\* The coordinate of p on an axis, and a rect's edge on it (tenths).
Coord(p, axis) == IF axis = "X" THEN p[1] ELSE p[2]
Edge(p, axis) == Tenths(IF axis = "X" THEN RectX(p) ELSE RectY(p), 0)
Other(axis) == IF axis = "X" THEN "Y" ELSE "X"

\* What C27 says of the call collide_and_stop(g, axis) of the actor a of
\* world w that returns in world w1 with actor a1.
StopsAsClaimed(w, w1, a, a1, g, axis) ==
    With(SpriteCollide(w, a.pos, g), LAMBDA hits :
        IF hits = <<>>
        THEN a1.pos = a.pos /\ a1.vel = a.vel /\ ~w1.ret
        ELSE /\ w1.ret
             /\ Coord(a.vel, axis) > 0 =>
                    Coord(a1.pos, axis)
                        = Edge(hits[1].pos, axis) - Tenths(TILE_SIZE, 0)
             /\ Coord(a.vel, axis) < 0 =>
                    Coord(a1.pos, axis)
                        = Edge(hits[1].pos, axis) + Tenths(TILE_SIZE, 0)
             /\ Coord(a1.vel, axis) = 0
             /\ Coord(a1.pos, Other(axis)) = Coord(a.pos, Other(axis)))

\* C27: when all_sprites.update() is about to call a sprite, every
\* collide_and_stop call of the sprite, moved as Actor.update moves it
\* before its collision checks, against any group on either axis does what
\* the claim says: without a hit it changes nothing and returns False; with
\* one it puts a moving actor against the first hit, stops it on the axis
\* and leaves the coordinate on the other axis.
C27_CollideAndStop ==
    UpdatePending =>
        \E w \in {[World EXCEPT !.ents[Head(queue)] = Integrate(@)]} :
            \A g \in CheckGroups, axis \in {"X", "Y"} :
                \E w1 \in {CollideAndStop(w, Head(queue), g, axis)} :
                    StopsAsClaimed(w, w1, w.ents[Head(queue)],
                                   w1.ents[Head(queue)], g, axis)

\* An Actor.update has hit another sprite or a wall of one of its
\* stopped_by groups and has been put back against it.
C27_Witness ==
    /\ Updated /\ ~last.killed /\ last.final # last.contact
    /\ \E i \in 1..Len(last.calls) :
           /\ Member(last.stoppers, last.calls[i].group)
           /\ last.calls[i].hits # <<>>
           /\ last.calls[i].hits[1].id # last.id

\* The actors Actor.update can be entered with when all_sprites.update()
\* calls the sprite next in turn: the sprite as it is, or the player as
\* get_keys leaves it for some state of the keys.
Entering ==
    {ents[Head(queue)]} \cup
    (IF ents[Head(queue)].kind = "Player" /\ ents[Head(queue)].frozen = "False"
     THEN {GetKeys(World, Head(queue), keys).ents[Head(queue)] : keys \in KeyStates}
     ELSE {})

\* The origin of the grid on an axis (tenths).
Origin(axis) == IF axis = "X" THEN 0 ELSE Tenths(INFO_HEIGHT, 0)

\* What C28 says of the grid snap on one axis that takes actor a, moved by
\* vel * dt to p, to a1.
SnapsAsClaimed(a, a1, axis) ==
    LET tile == Tenths(TILE_SIZE, 0)
        p == Coord(Add(a.pos, Scale(a.vel, dt)), axis)
        q == Coord(a1.pos, axis)
    IN  IF Coord(a.vel, axis) = 0
        THEN /\ (q - Origin(axis)) % tile = 0
             /\ 2 * Abs(q - p) <= tile
             /\ q > p => 2 * ((p - Origin(axis)) % tile) > tile
        ELSE q = p

\* C28: for every actor Actor.update can be entered with, the position
\* after integration and grid snap is, on an axis of zero velocity, the
\* tile boundary nearest to the position before the snap (above it only
\* when the deviation exceeds half a tile), and on an axis of non-zero
\* velocity the position before the snap.
C28_GridSnap ==
    UpdatePending =>
        \A a \in Entering : \A axis \in {"X", "Y"} :
            SnapsAsClaimed(a, Integrate(a), axis)

\* The player is about to be updated more than half a tile east of a tile
\* boundary: with no key held the snap takes it up to the next boundary.
C28_Witness ==
    /\ UpdatePending /\ Head(queue) = player /\ ents[player].frozen = "False"
    /\ 2 * (ents[player].pos[1] % Tenths(TILE_SIZE, 0)) > Tenths(TILE_SIZE, 0)
    /\ Integrate([ents[player] EXCEPT !.vel = Zero]).pos[1] > ents[player].pos[1]

\* The position is on the grid.
Aligned(p) ==
    /\ p[1] % Tenths(TILE_SIZE, 0) = 0
    /\ (p[2] - Tenths(INFO_HEIGHT, 0)) % Tenths(TILE_SIZE, 0) = 0

\* The positions of the walls and of the sprites that are on the grid.
AlignedPositions ==
    {walls[i] : i \in 1..Len(walls)}
    \cup {ents[i].pos : i \in {j \in 1..Len(ents) : Aligned(ents[j].pos)}}

\* C29: for any two walls or sprites on the grid (the same one included)
\* and each of the four directions, is_actor_neighbour_in_direction is true
\* exactly when the second is one tile from the first in the direction; so
\* it is true for at most one direction.
C29_DirectionExact ==
    \A p, q \in AlignedPositions :
        /\ \A d \in Directions :
               IsActorNeighbourInDirection(p, q, d)
                   <=> q = Add(p, Scale(d, Tenths(TILE_SIZE, 0)))
        /\ Cardinality({d \in Directions : IsActorNeighbourInDirection(p, q, d)}) <= 1

\* The player, on the grid, has pushed the block that is its neighbour in
\* the direction it faces.
C29_Witness ==
    /\ Updated /\ last.id = player /\ last.pushes # <<>>
    /\ Aligned(ents[player].pos) /\ Aligned(ents[last.pushes[1].id].pos)
    /\ IsActorNeighbourInDirection(ents[player].pos, ents[last.pushes[1].id].pos,
                                   last.pushes[1].direction)
    /\ last.pushes[1].direction = ents[player].facing

\* The direction keys held, in the order get_keys reads them.
Held(keys) ==
    (IF keys.left THEN <<LEFT>> ELSE <<>>) \o (IF keys.right THEN <<RIGHT>> ELSE <<>>)
    \o (IF keys.up THEN <<UP>> ELSE <<>>) \o (IF keys.down THEN <<DOWN>> ELSE <<>>)

\* C30: when the player that reads the keys is about to be updated, for
\* every state of the keys get_keys leaves it with zero velocity and its
\* facing as before when no direction key is held, and else facing the
\* direction of the last key held in the order LEFT, RIGHT, UP, DOWN with
\* the velocity PLAYER_SPEED in that direction, zero on the other axis.
C30_LastKeyWins ==
    (UpdatePending /\ Head(queue) = player /\ ents[player].frozen = "False") =>
        \A keys \in KeyStates :
            \E a \in {GetKeys(World, player, keys).ents[player]} :
                IF Held(keys) = <<>>
                THEN a.vel = Zero /\ a.facing = ents[player].facing
                ELSE /\ a.facing = LastOf(Held(keys))
                     /\ a.vel = Scale(a.facing, PLAYER_SPEED)
                     /\ a.facing \in Directions
                     /\ (a.vel[1] = 0) # (a.vel[2] = 0)

\* The player, made facing down, has turned east and moves east.
C30_Witness ==
    /\ Updated /\ last.id = player
    /\ ents[player].facing = RIGHT
    /\ ents[player].vel = Scale(RIGHT, PLAYER_SPEED)

\* A step that is an update of all_sprites.update() returning.
UpdateStep == pc = "update" /\ queue # <<>> /\ queue' = Tail(queue)

\* The step puts enemy e in the stunned state: its stun() takes effect, or
\* its stun countdown is set where it was not.
Stunning(e) ==
    \/ UpdateStep /\ Member(last'.stuns, e)
    \/ ents[e].stunned_timer = None /\ ents'[e].stunned_timer # None

\* The step is the update of the player, who has a wall as its neighbour in
\* the direction it faces when push() is called (after get_keys, before it
\* moves).
WallPush ==
    /\ UpdateStep /\ Head(queue) = player
    /\ \E i \in 1..Len(walls) :
           IsActorNeighbourInDirection(ents[player].pos, walls[i], ents'[player].facing)

\* The enlarged rect (ratio 1.2) of a sprite at pos meets a wall.
BesideWall(pos) == \E i \in 1..Len(walls) : CollideRectRatio(pos, walls[i], 12)

\* The step is the update of a Diamond that adds the line-up bonus.
DiamondBonus ==
    /\ UpdateStep /\ ents[Head(queue)].kind = "Diamond"
    /\ score' = score + DIAMOND_LINEUP_BONUS

\* C31: a step puts an enemy in the stunned state only if it is the update
\* of the player with a wall as its neighbour in the direction faced and the
\* enemy is beside a wall, or the update of a Diamond that adds the line-up
\* bonus.
C31_StunOnlyByWallPushOrBonus ==
    [][\A e \in EnemyIds :
           Stunning(e) => ((WallPush /\ BesideWall(ents[e].pos)) \/ DiamondBonus)]_vars

\* The push of the player against the wall has stunned the enemy, which is
\* beside a wall, in a level without a Diamond.
C31_Witness ==
    /\ Updated /\ last.id = player /\ last.stuns # <<>>
    /\ DiamondIds = {}
    /\ BesideWall(ents[last.stuns[1]].pos)
    /\ ents[last.stuns[1]].stunned_timer = Some(STUNNED_TIME)

\* The perimeter cells of a grid of `height` rows of `width` cells.
Perimeter(height, width) ==
    {cell \in (0..(width - 1)) \X (0..(height - 1)) :
        cell[1] \in {0, width - 1} \/ cell[2] \in {0, height - 1}}

\* The cells (column, row), counted from 1, of the level whose token makes a
\* sprite.
SpriteCells ==
    {cell \in (1..Len(level[1])) \X (1..Len(level)) :
        level[cell[2]][cell[1]] \in {"0", "1", "2"}}

\* C32: after a load that succeeds, the walls are at the perimeter cells of
\* the grid of (rows + 2) rows of (columns + 2) cells and nowhere else, no
\* two walls at one cell; the sprites are those of the level's tokens, the
\* one of row r and column c (counted from 1) at cell (c, r), inside the
\* ring; and no sprite's rect overlaps a wall's.
C32_WallRing ==
    (LoadDone /\ err = "") =>
        /\ {walls[i] : i \in 1..Len(walls)}
               = {TilePos(cell[1], cell[2]) :
                     cell \in Perimeter(Len(level) + 2, Len(level[1]) + 2)}
        /\ \A i, j \in 1..Len(walls) : walls[i] = walls[j] => i = j
        /\ Len(ents) = Cardinality(SpriteCells)
        /\ \A cell \in SpriteCells :
               \E k \in 1..Len(ents) : ents[k].pos = TilePos(cell[1], cell[2])
        /\ \A k \in 1..Len(ents) :
               /\ \E cell \in SpriteCells : ents[k].pos = TilePos(cell[1], cell[2])
               /\ \A i \in 1..Len(walls) : ~CollideRect(ents[k].pos, walls[i])

\* A level of two rows of two tokens is loaded, with two sprites inside the
\* ring of twelve walls.
C32_Witness ==
    /\ LoadDone /\ err = ""
    /\ Len(level) = 2 /\ Len(level[1]) = 2
    /\ Len(ents) = 2 /\ Len(walls) = 12

\* The sprites of class Block and of its subclasses.
AnyBlockIds == {i \in 1..Len(ents) : ents[i].kind \in {"Block", "EggBlock", "Diamond"}}

\* C33: every block of all_sprites is in exactly one of game.blocks and
\* game.moving_blocks; every block with a velocity is in
\* game.moving_blocks; and when the player that reads the keys is about to
\* be updated, for every state of the keys each respond_to_push call of its
\* push() is on a sprite that is in game.blocks, not in game.moving_blocks
\* and at rest.
C33_BlockMembership ==
    /\ \A b \in AnyBlockIds :
           /\ Member(all_sprites, b) => (Member(blocks, b) # Member(moving_blocks, b))
           /\ ents[b].vel # Zero => Member(moving_blocks, b)
    /\ (UpdatePending /\ Head(queue) = player /\ ents[player].frozen = "False") =>
           \A keys \in KeyStates :
               \E w \in {GetKeys(World, player, keys)} :
                   \A i \in 1..Len(w.pushes) :
                       /\ Member(blocks, w.pushes[i].id)
                       /\ ~Member(moving_blocks, w.pushes[i].id)
                       /\ ents[w.pushes[i].id].vel = Zero

\* The player is about to be updated while the block it has pushed is in
\* flight.
C33_Witness ==
    /\ UpdatePending /\ Head(queue) = player /\ ents[player].frozen = "False"
    /\ \E b \in AnyBlockIds :
           /\ ents[b].vel # Zero
           /\ Member(moving_blocks, b) /\ ~Member(blocks, b)
           /\ Member(all_sprites, b)

\* C34: game.lives is between 0 and START_LIVES in every state; a step
\* changes it only by taking one life in the Player.update that starts a
\* death countdown, and no step changes it while the countdown is set,
\* whatever the later fatal checks of the player find.
C34_LivesOncePerDeath ==
    /\ [](0 <= lives /\ lives <= START_LIVES)
    /\ [][/\ Dying => lives' = lives
          /\ lives' # lives
                 => /\ PlayerUpdateStep /\ ~Dying /\ Dying'
                    /\ lives' = lives - 1]_vars

\* C35: the player is killed by the sprites of game.enemies alone, an enemy
\* whose stun countdown is set is not in game.enemies, and no fatal check
\* of a Player.update that marks the player killed has hit an enemy whose
\* stun countdown is set.
C35_StunnedNeverKills ==
    /\ ents[player].killed_by = <<"enemies">>
    /\ \A e \in EnemyIds : ents[e].stunned_timer # None => ~Member(enemies, e)
    /\ (Updated /\ last.id = player /\ last.killed) =>
           \A i \in 1..Len(last.calls) :
               last.calls[i].group = "enemies" =>
                   \A j \in 1..Len(last.calls[i].hits) :
                       ents[last.calls[i].hits[j].id].stunned_timer = None

\* A Player.update has moved the player onto an enemy whose stun countdown
\* is set, and has not marked the player killed.
C35_Witness ==
    /\ Updated /\ last.id = player /\ ~last.killed
    /\ \E e \in EnemyIds :
           /\ ents[e].stunned_timer # None
           /\ CollideRect(last.contact, ents[e].pos)
           /\ CollideRect(ents[player].pos, ents[e].pos)

\* An Enemy.update has marked killed, on a hit of a moving block, an enemy
\* that was not stunned and whose respawn countdown was set.
ImmuneHit ==
    /\ Updated /\ last.id \in EnemyIds /\ last.killed
    /\ last.before.respawn_timer # None /\ ~last.stunned
    /\ \E i \in 1..Len(last.calls) :
           last.calls[i].group = "moving_blocks" /\ last.calls[i].hits # <<>>

\* C36: an Enemy.update that marks killed, on a hit of a moving block, an
\* enemy that is not stunned and whose respawn countdown is set leaves
\* game.score and the enemy's deaths as they were, does not start the
\* countdown again (it stays as it was, or is cleared if it was at zero)
\* and leaves the enemy where Actor.update put it, not at its spawn tile by
\* die_and_respawn.
C36_ImmuneNotKilled ==
    ImmuneHit =>
        /\ score = last.score0
        /\ ents[last.id].deaths = last.before.deaths
        /\ ents[last.id].respawn_timer =
               IF last.before.respawn_timer = Some(0) THEN None
               ELSE last.before.respawn_timer
        /\ ents[last.id].pos = last.final

\* A moving block has hit an enemy that had died once and whose respawn
\* countdown was running.
C36_Witness ==
    /\ ImmuneHit
    /\ Val(last.before.respawn_timer) > 0
    /\ last.before.deaths = 1

\* C37: after the Enemy.update of an enemy that was not stunned the enemy
\* faces one of the four directions and its velocity is ENEMY_SPEED in that
\* direction, also when the update has killed it and made it respawn; after
\* the Enemy.update of a stunned enemy its velocity is zero.
C37_EnemyVelocity ==
    (Updated /\ last.id \in EnemyIds) =>
        IF last.stunned
        THEN ents[last.id].vel = Zero
        ELSE /\ ents[last.id].facing \in Directions
             /\ ents[last.id].vel = Scale(ents[last.id].facing, ENEMY_SPEED)

\* An Enemy.update has killed an enemy that was not stunned and has made it
\* respawn.
C37_Witness ==
    /\ Updated /\ last.id \in EnemyIds /\ ~last.stunned /\ last.killed
    /\ ents[last.id].deaths = last.before.deaths + 1
    /\ ents[last.id].pos = TilePos(ents[last.id].starting_x, ents[last.id].starting_y)
    /\ ents[last.id].vel # Zero

\* C38: at the top of a loop iteration of the running level, for every
\* state of the keys and every random outcome, the kill count no_kills()
\* reports after the Game.update that follows is not lower than the one it
\* reports now.
C38_KillsNeverDecrease ==
    (Running /\ pc = "loop" /\ game_state = "RUNNING"
        /\ ents[player].frozen # "unset") =>
        \A keys \in KeyStates, randint \in 0..2, smart \in BOOLEAN :
            \E w \in {UpdateAll(World, all_sprites, keys, randint, smart)} :
                SumDeaths(w.ents, w.enemies) >= NoKills

\* Neither the level timer nor the display timer is below zero.
TimersNotPastZero ==
    /\ timer >= 0
    /\ IF display_timer = None THEN TRUE ELSE Val(display_timer) >= 0

\* C39: while TIMER events keep arriving, however many of them an iteration
\* finds, a game in READY comes to RUNNING and a level in RUNNING comes to
\* COMPLETE or the game to GAME_OVER, and neither the level timer nor the
\* display timer is ever below zero (the transition of a timer at zero is
\* taken before a TIMER event takes more from it).
C39_TimerProgress ==
    /\ []TimersNotPastZero
    /\ (game_state = "READY") ~> (game_state = "RUNNING")
    /\ (game_state = "RUNNING") ~> (game_state = "COMPLETE" \/ state = "GAME_OVER")

\* What the level consists of while it is played: the sprites with their
\* positions and velocities, the groups, the score, the lives and the level
\* timer.
Play == <<ents, all_sprites, blocks, moving_blocks, enemies, stunned_enemies,
          score, lives, timer>>

\* The step is the COMPLETE iteration that ends the display: it calls
\* setup_play(reset=True) and the game is in READY after it.
SetUpAgain == game_state = "COMPLETE" /\ game_state' = "READY"

=============================================================================
